---- MODULE Spec2Model ----
(***************************************************************************)
(* A model of the OBD-II / ELM327 protocol codec (andenwick/car-scan).     *)
(*                                                                         *)
(* Every library function is a pure computation over caller buffers, so    *)
(* the state of a run is the arguments of one call (arg), the position of  *)
(* the caller (pc) and what the call returned and wrote (ret).  A C string *)
(* is a sequence of non-zero character codes (ASCII); the terminating NUL  *)
(* is the position just after the sequence.  An output buffer is the       *)
(* sequence of cells the function wrote, starting at index 0.              *)
(***************************************************************************)
EXTENDS Integers, Sequences, FiniteSets, TLC

VARIABLES pc, arg, ret

vars == <<pc, arg, ret>>

(***************************************************************************)
(* Characters and strings                                                  *)
(***************************************************************************)

\* ASCII codes of the characters the texts of the model are written with.
Ascii ==
    [c \in {"0","1","2","3","4","5","6","7","8","9"} |->
        CASE c = "0" -> 48 [] c = "1" -> 49 [] c = "2" -> 50 [] c = "3" -> 51
          [] c = "4" -> 52 [] c = "5" -> 53 [] c = "6" -> 54 [] c = "7" -> 55
          [] c = "8" -> 56 [] c = "9" -> 57] @@
    (LET upper == <<"A","B","C","D","E","F","G","H","I","J","K","L","M","N","O",
                    "P","Q","R","S","T","U","V","W","X","Y","Z">>
         lower == <<"a","b","c","d","e","f","g","h","i","j","k","l","m","n","o",
                    "p","q","r","s","t","u","v","w","x","y","z">>
     IN  [c \in {upper[i] : i \in 1..26} |-> 64 + CHOOSE i \in 1..26 : upper[i] = c] @@
         [c \in {lower[i] : i \in 1..26} |-> 96 + CHOOSE i \in 1..26 : lower[i] = c]) @@
    [c \in {" ", "\t", "\r", "\n", ">", "?", ":", ".", "/", "@", "%"} |->
        CASE c = "%" -> 37 [] c = " " -> 32 [] c = "\t" -> 9 [] c = "\r" -> 13 [] c = "\n" -> 10
          [] c = ">" -> 62 [] c = "?" -> 63 [] c = ":" -> 58 [] c = "." -> 46
          [] c = "/" -> 47 [] c = "@" -> 64]

\* The code of one character, as a C character literal: Ch("A") is 'A'.
Ch(c) == Ascii[c]

\* A C string literal, written as the tuple of its characters.
Str(cs) == [i \in 1..Len(cs) |-> Ascii[cs[i]]]

\* A NULL pointer argument (no string holds a negative code).
NULL == <<-1>>

\* s[i] of a NUL-terminated C string, i counted from 0.
At(s, i) == IF i < Len(s) THEN s[i + 1] ELSE 0

\* The C string held in a buffer: the cells before the first NUL.
CStr(buf) ==
    LET nuls == {i \in 1..Len(buf) : buf[i] = 0} IN
    IF nuls = {} THEN buf
    ELSE SubSeq(buf, 1, (CHOOSE i \in nuls : \A j \in nuls : i <= j) - 1)

\* s without its first n characters (the pointer s + n).
Drop(s, n) == IF n >= Len(s) THEN <<>> ELSE SubSeq(s, n + 1, Len(s))

\* The first n characters of s.
Take(s, n) == IF n >= Len(s) THEN s ELSE SubSeq(s, 1, n)

\* All sequences over S of length at most n.
RECURSIVE SeqsUpTo(_, _)
SeqsUpTo(S, n) ==
    IF n = 0 THEN {<<>>}
    ELSE LET shorter == SeqsUpTo(S, n - 1)
         IN  shorter \cup {Append(s, x) : s \in {t \in shorter : Len(t) = n - 1}, x \in S}

(***************************************************************************)
(* obd_types.h: result codes                                               *)
(***************************************************************************)
OBD_OK == 0
OBD_ERROR_INVALID_ARG == -1
OBD_ERROR_BUFFER_TOO_SMALL == -2
OBD_ERROR_INVALID_HEX == -3
OBD_ERROR_NO_DATA == -4
OBD_ERROR_ELM_ERROR == -5
OBD_ERROR_PARSE_FAILED == -6
OBD_ERROR_UNKNOWN_PID == -7

(***************************************************************************)
(* hex_utils.c                                                             *)
(***************************************************************************)

\* Faulty variant: the small letters a..f are not taken as digits.
hex_char_to_nibble_upper_only(c) ==
    IF c >= Ch("0") /\ c <= Ch("9") THEN c - Ch("0")
    ELSE IF c >= Ch("A") /\ c <= Ch("F") THEN c - Ch("A") + 10
    ELSE -1

hex_char_to_nibble(c) ==
    IF c >= Ch("0") /\ c <= Ch("9") THEN c - Ch("0")
    ELSE IF c >= Ch("A") /\ c <= Ch("F") THEN c - Ch("A") + 10
    ELSE IF c >= Ch("a") /\ c <= Ch("f") THEN c - Ch("a") + 10
    ELSE -1

\* Faulty variant: the carriage return is not taken as whitespace.
is_whitespace_no_cr(c) ==
    c = Ch(" ") \/ c = Ch("\t") \/ c = Ch("\n")

is_whitespace(c) ==
    c = Ch(" ") \/ c = Ch("\t") \/ c = Ch("\r") \/ c = Ch("\n")

\* Faulty variant: a blank is looked at again and again.
hex_to_bytes_step_stays_on_blank(hex, out_size, st) ==
    IF st.done THEN st
    ELSE IF At(hex, st.i) = 0
    THEN [st EXCEPT !.done = TRUE, !.r = OBD_OK, !.out_len = Len(st.out)]
    ELSE IF is_whitespace(At(hex, st.i))
    THEN st
    ELSE LET high == hex_char_to_nibble(At(hex, st.i))
             low  == hex_char_to_nibble(At(hex, st.i + 1))
         IN  IF high < 0
             THEN [st EXCEPT !.done = TRUE, !.r = OBD_ERROR_INVALID_HEX]
             ELSE IF At(hex, st.i + 1) = 0
             THEN [st EXCEPT !.done = TRUE, !.r = OBD_ERROR_INVALID_HEX, !.i = st.i + 1]
             ELSE IF low < 0
             THEN [st EXCEPT !.done = TRUE, !.r = OBD_ERROR_INVALID_HEX, !.i = st.i + 1]
             ELSE IF Len(st.out) >= out_size
             THEN [st EXCEPT !.done = TRUE, !.r = OBD_ERROR_BUFFER_TOO_SMALL,
                             !.i = st.i + 2]
             ELSE [st EXCEPT !.i = st.i + 2, !.out = Append(st.out, high * 16 + low)]

\* One iteration of the while loop of obd_hex_to_bytes.  st.i is the read
\* position, st.out the bytes written so far (o = Len(st.out)); st.done is
\* TRUE once the function has returned st.r.  out_len = -1: *out_len was
\* not assigned.
hex_to_bytes_step(hex, out_size, st) ==
    IF st.done THEN st
    ELSE IF At(hex, st.i) = 0
    THEN [st EXCEPT !.done = TRUE, !.r = OBD_OK, !.out_len = Len(st.out)]
    ELSE IF is_whitespace(At(hex, st.i))
    THEN [st EXCEPT !.i = st.i + 1]
    ELSE LET high == hex_char_to_nibble(At(hex, st.i))
             low  == hex_char_to_nibble(At(hex, st.i + 1))
         IN  IF high < 0
             THEN [st EXCEPT !.done = TRUE, !.r = OBD_ERROR_INVALID_HEX]
             ELSE IF At(hex, st.i + 1) = 0
             THEN [st EXCEPT !.done = TRUE, !.r = OBD_ERROR_INVALID_HEX, !.i = st.i + 1]
             ELSE IF low < 0
             THEN [st EXCEPT !.done = TRUE, !.r = OBD_ERROR_INVALID_HEX, !.i = st.i + 1]
             ELSE IF Len(st.out) >= out_size
             THEN [st EXCEPT !.done = TRUE, !.r = OBD_ERROR_BUFFER_TOO_SMALL,
                             !.i = st.i + 2]
             ELSE [st EXCEPT !.i = st.i + 2, !.out = Append(st.out, high * 16 + low)]

\* k iterations of the loop.
RECURSIVE hex_to_bytes_run(_, _, _, _)
hex_to_bytes_run(hex, out_size, st, k) ==
    IF k = 0 THEN st
    ELSE IF k = 1 THEN hex_to_bytes_step(hex, out_size, st)
    ELSE LET half == hex_to_bytes_run(hex, out_size, st, k \div 2)
         IN  IF half.done THEN half
             ELSE hex_to_bytes_run(hex, out_size, half, k - k \div 2)

\* obd_hex_to_bytes(hex, out, out_size, &out_len), out and out_len not NULL.
\* Every iteration moves the read position on, so the loop has returned
\* after at most strlen(hex) + 1 iterations.
obd_hex_to_bytes(hex, out_size) ==
    IF hex = NULL
    THEN [r |-> OBD_ERROR_INVALID_ARG, out |-> <<>>, out_len |-> -1]
    ELSE LET st == hex_to_bytes_run(hex, out_size,
                       [i |-> 0, out |-> <<>>, done |-> FALSE, r |-> OBD_OK,
                        out_len |-> -1],
                       Len(hex) + 1)
         IN  [r |-> st.r, out |-> st.out, out_len |-> st.out_len]

\* Faulty variant: the letter digits are taken ten places too far.
hex_chars_no_offset(n) == IF n < 10 THEN Ch("0") + n ELSE Ch("A") + n

\* hex_chars[n] of obd_bytes_to_hex.
hex_chars(n) == IF n < 10 THEN Ch("0") + n ELSE Ch("A") + (n - 10)

\* Faulty variant: the low nibble is written before the high one.
bytes_to_hex_step_low_first(bytes, len, i) ==
    LET hi == hex_chars((bytes[i + 1] \div 16) % 16)
        lo == hex_chars(bytes[i + 1] % 16)
    IN  IF i < len - 1 THEN <<lo, hi, Ch(" ")>> ELSE <<lo, hi>>

\* Iteration i of the for loop of obd_bytes_to_hex: the cells it writes.
bytes_to_hex_step(bytes, len, i) ==
    LET hi == hex_chars((bytes[i + 1] \div 16) % 16)
        lo == hex_chars(bytes[i + 1] % 16)
    IN  IF i < len - 1 THEN <<hi, lo, Ch(" ")>> ELSE <<hi, lo>>

\* Iterations from..(to - 1) of the loop: the cells they write, in order.
RECURSIVE bytes_to_hex_run(_, _, _, _)
bytes_to_hex_run(bytes, len, from, to) ==
    IF from >= to THEN <<>>
    ELSE IF from + 1 = to THEN bytes_to_hex_step(bytes, len, from)
    ELSE LET mid == (from + to) \div 2
         IN  bytes_to_hex_run(bytes, len, from, mid)
                \o bytes_to_hex_run(bytes, len, mid, to)

\* The for loop of obd_bytes_to_hex and the terminator written after it.
bytes_to_hex_loop(bytes, len) == Append(bytes_to_hex_run(bytes, len, 0, len), 0)

\* obd_bytes_to_hex(bytes, len, out, out_size), bytes and out not NULL.
\* out: the cells written, the terminating NUL included.
obd_bytes_to_hex(bytes, len, out_size) ==
    IF len = 0
    THEN [r |-> OBD_OK, out |-> IF out_size > 0 THEN <<0>> ELSE <<>>]
    ELSE IF out_size < len * 3
    THEN [r |-> OBD_ERROR_BUFFER_TOO_SMALL, out |-> <<>>]
    ELSE [r |-> OBD_OK, out |-> bytes_to_hex_loop(bytes, len)]

(***************************************************************************)
(* The hex codec under test: encode a byte array, decode the text back     *)
(* (tests/test_hex_utils.c, test_roundtrip).                               *)
(***************************************************************************)

\* Longest byte array encoded.
MaxBytes == 3

\* Byte values that cover every nibble class (digit, letter, zero, all ones).
ByteSamples == {0, 9, 10, 65, 175, 255}

\* Slack added to the smallest legal buffer capacities.
MaxSlack == 1

NoRet == [r |-> OBD_OK, out |-> <<>>, out_len |-> -1]

InitHex ==
    /\ pc = "encode"
    /\ \E B \in SeqsUpTo(ByteSamples, MaxBytes), es \in 0..MaxSlack, ds \in 0..MaxSlack,
          short \in BOOLEAN :
          arg = [bytes    |-> B,
                 enc_size |-> IF short THEN 3 * Len(B) - 1 - es
                              ELSE (IF Len(B) = 0 THEN 1 ELSE 3 * Len(B)) + es,
                 dec_size |-> Len(B) + ds]
    /\ arg.enc_size >= 0
    /\ ret = [enc |-> NoRet, dec |-> NoRet]

\* The caller encodes arg.bytes into a text buffer of enc_size cells.
BytesToHex ==
    /\ pc = "encode"
    /\ ret' = [ret EXCEPT !.enc =
                 obd_bytes_to_hex(arg.bytes, Len(arg.bytes), arg.enc_size)
                     @@ [out_len |-> -1]]
    /\ pc' = "decode"
    /\ UNCHANGED arg

\* The caller decodes the text it was given back, if the encoding succeeded.
HexToBytes ==
    /\ pc = "decode"
    /\ ret.enc.r = OBD_OK
    /\ ret' = [ret EXCEPT !.dec = obd_hex_to_bytes(CStr(ret.enc.out), arg.dec_size)]
    /\ pc' = "done"
    /\ UNCHANGED arg

NextHex == BytesToHex \/ HexToBytes

SpecHex == InitHex /\ [][NextHex]_vars

\* C1: every byte sequence encoded into a buffer of capacity >= max(1, 3n)
\* encodes with OK, and the text decodes with OK into a buffer of capacity
\* >= n, giving out_len = n and the same bytes in the same order.
HexRoundTrip ==
    LET n == Len(arg.bytes) IN
    (arg.enc_size >= (IF n = 0 THEN 1 ELSE 3 * n)) =>
        /\ pc \in {"decode", "done"} => ret.enc.r = OBD_OK
        /\ pc = "done" =>
              /\ ret.dec.r = OBD_OK
              /\ ret.dec.out_len = n
              /\ ret.dec.out = arg.bytes

\* A three-byte array with letter digits went through both conversions.
HexRoundTripWitness ==
    /\ pc = "done"
    /\ Len(arg.bytes) = MaxBytes
    /\ 175 \in {arg.bytes[i] : i \in 1..Len(arg.bytes)}
    /\ arg.bytes[1] = 0
    /\ ret.dec.r = OBD_OK
    /\ ret.dec.out = arg.bytes

(***************************************************************************)
(* obd_types.h: response classifications                                   *)
(***************************************************************************)
OBD_ELM_RESPONSE_DATA == 0
OBD_ELM_RESPONSE_OK == 1
OBD_ELM_RESPONSE_NO_DATA == 2
OBD_ELM_RESPONSE_ERROR == 3
OBD_ELM_RESPONSE_PROMPT == 4
OBD_ELM_RESPONSE_UNKNOWN == 5

OBD_MAX_RESPONSE_LEN == 256

(***************************************************************************)
(* elm327.c                                                                *)
(***************************************************************************)

\* strncmp(p, lit, n) == 0, for a literal of n characters.
strncmp0(p, lit, n) == \A i \in 0..(n - 1) : At(p, i) = At(lit, i)

\* strstr(s, lit) != NULL.
strstr_found(s, lit) ==
    \E i \in 0..(Len(s) - Len(lit)) : SubSeq(s, i + 1, i + Len(lit)) = lit

\* Where a `while (*p == ...) p++` loop started at position i stops: the
\* first position at or after i whose character is not in `skip` (the NUL
\* is not).
skip_chars(s, i, skip) ==
    CHOOSE j \in i..Len(s) :
        /\ At(s, j) \notin skip
        /\ \A k \in i..(j - 1) : At(s, k) \in skip

\* Where a `while (*p != ...) p++` loop started at position i stops: the
\* first position at or after i whose character is in `stop` (the NUL is).
scan_to(s, i, stop) ==
    CHOOSE j \in i..Len(s) :
        /\ At(s, j) \in stop
        /\ \A k \in i..(j - 1) : At(s, k) \notin stop

\* Faulty variant: the hex-digit fallback is tried before the ELM banner.
obd_elm327_classify_response_hex_first(response) ==
    IF response = NULL THEN OBD_ELM_RESPONSE_UNKNOWN
    ELSE LET p == Drop(response,
                       skip_chars(response, 0, {Ch(" "), Ch("\t"), Ch("\r"), Ch("\n")}))
         IN  IF At(p, 0) = 0 THEN OBD_ELM_RESPONSE_UNKNOWN
             ELSE IF At(p, 0) = Ch(">") THEN OBD_ELM_RESPONSE_PROMPT
             ELSE IF strncmp0(p, Str(<<"O","K">>), 2) THEN OBD_ELM_RESPONSE_OK
             ELSE IF strncmp0(p, Str(<<"N","O"," ","D","A","T","A">>), 7)
                  THEN OBD_ELM_RESPONSE_NO_DATA
             ELSE IF At(p, 0) = Ch("?") THEN OBD_ELM_RESPONSE_ERROR
             ELSE IF \/ strncmp0(p, Str(<<"E","R","R","O","R">>), 5)
                     \/ strncmp0(p, Str(<<"U","N","A","B","L","E"," ","T","O"," ",
                                          "C","O","N","N","E","C","T">>), 17)
                     \/ strncmp0(p, Str(<<"B","U","S"," ","I","N","I","T">>), 8)
                     \/ strncmp0(p, Str(<<"C","A","N"," ","E","R","R","O","R">>), 9)
                     \/ strncmp0(p, Str(<<"S","T","O","P","P","E","D">>), 7)
                  THEN OBD_ELM_RESPONSE_ERROR
             ELSE IF hex_char_to_nibble(At(p, 0)) >= 0 THEN OBD_ELM_RESPONSE_DATA
             ELSE IF strncmp0(p, Str(<<"E","L","M">>), 3) THEN OBD_ELM_RESPONSE_OK
             ELSE OBD_ELM_RESPONSE_UNKNOWN

obd_elm327_classify_response(response) ==
    IF response = NULL THEN OBD_ELM_RESPONSE_UNKNOWN
    ELSE LET p == Drop(response,
                       skip_chars(response, 0, {Ch(" "), Ch("\t"), Ch("\r"), Ch("\n")}))
         IN  IF At(p, 0) = 0 THEN OBD_ELM_RESPONSE_UNKNOWN
             ELSE IF At(p, 0) = Ch(">") THEN OBD_ELM_RESPONSE_PROMPT
             ELSE IF strncmp0(p, Str(<<"O","K">>), 2) THEN OBD_ELM_RESPONSE_OK
             ELSE IF strncmp0(p, Str(<<"N","O"," ","D","A","T","A">>), 7)
                  THEN OBD_ELM_RESPONSE_NO_DATA
             ELSE IF At(p, 0) = Ch("?") THEN OBD_ELM_RESPONSE_ERROR
             ELSE IF \/ strncmp0(p, Str(<<"E","R","R","O","R">>), 5)
                     \/ strncmp0(p, Str(<<"U","N","A","B","L","E"," ","T","O"," ",
                                          "C","O","N","N","E","C","T">>), 17)
                     \/ strncmp0(p, Str(<<"B","U","S"," ","I","N","I","T">>), 8)
                     \/ strncmp0(p, Str(<<"C","A","N"," ","E","R","R","O","R">>), 9)
                     \/ strncmp0(p, Str(<<"S","T","O","P","P","E","D">>), 7)
                  THEN OBD_ELM_RESPONSE_ERROR
             ELSE IF strncmp0(p, Str(<<"E","L","M">>), 3) THEN OBD_ELM_RESPONSE_OK
             ELSE IF hex_char_to_nibble(At(p, 0)) >= 0 THEN OBD_ELM_RESPONSE_DATA
             ELSE OBD_ELM_RESPONSE_UNKNOWN

\* Faulty variant: the echo filter tests the 0x40 bit instead of comparing.
clean_line_skipped_bit_test(raw, lp, p) ==
    LET hi == hex_char_to_nibble(At(raw, lp))
        lo == IF lp + 1 < p THEN hex_char_to_nibble(At(raw, lp + 1)) ELSE -1
    IN  IF hi < 0 \/ lo < 0 THEN TRUE
        ELSE ((hi * 16 + lo) \div 64) % 2 = 0

\* The echo filter of obd_elm327_clean_response on a line classified Data
\* that starts at lp and ends before p: TRUE when the line is skipped.
clean_line_skipped(raw, lp, p) ==
    LET hi == hex_char_to_nibble(At(raw, lp))
        lo == IF lp + 1 < p THEN hex_char_to_nibble(At(raw, lp + 1)) ELSE -1
    IN  IF hi < 0 \/ lo < 0 THEN TRUE
        ELSE hi * 16 + lo < 64

\* Faulty variant: a '>' inside a line does not end the line.
clean_line_end_ignores_prompt(raw, line_start) ==
    scan_to(raw, line_start, {0, Ch("\r"), Ch("\n")})

\* The "find end of current line" loop of obd_elm327_clean_response.
clean_line_end(raw, line_start) ==
    scan_to(raw, line_start, {0, Ch("\r"), Ch("\n"), Ch(">")})

\* Faulty variant: the capacity test leaves no room for the terminator.
clean_copy_line_off_by_one(out, out_size, found_data, line) ==
    LET out1 == IF found_data /\ Len(out) < out_size - 1
                THEN Append(out, Ch("\r")) ELSE out
    IN  IF Len(out1) + Len(line) > out_size
        THEN [full |-> TRUE, out |-> out1]
        ELSE [full |-> FALSE, out |-> out1 \o line]

\* The separator, the capacity test and the memcpy of a surviving line:
\* full is TRUE when the function returns OBD_ERROR_BUFFER_TOO_SMALL.
clean_copy_line(out, out_size, found_data, line) ==
    LET out1 == IF found_data /\ Len(out) < out_size - 1
                THEN Append(out, Ch("\r")) ELSE out
    IN  IF Len(out1) + Len(line) >= out_size
        THEN [full |-> TRUE, out |-> out1]
        ELSE [full |-> FALSE, out |-> out1 \o line]

\* The trailing trim: out_pos steps back over spaces and tabs, writing NULs.
RECURSIVE clean_trim(_, _)
clean_trim(out, out_pos) ==
    IF out_pos > 0 /\ (out[out_pos] = Ch(" ") \/ out[out_pos] = Ch("\t"))
    THEN clean_trim([out EXCEPT ![out_pos] = 0], out_pos - 1)
    ELSE out

\* Faulty variant: the error tokens are looked for before "NO DATA".
clean_finish_error_first(raw, out, found_data) ==
    IF ~found_data
    THEN IF \/ strstr_found(raw, Str(<<"?">>))
            \/ strstr_found(raw, Str(<<"E","R","R","O","R">>))
         THEN [r |-> OBD_ERROR_ELM_ERROR, out |-> <<0>>]
         ELSE IF strstr_found(raw, Str(<<"N","O"," ","D","A","T","A">>))
         THEN [r |-> OBD_ERROR_NO_DATA, out |-> <<0>>]
         ELSE [r |-> OBD_ERROR_PARSE_FAILED, out |-> <<0>>]
    ELSE [r |-> OBD_OK, out |-> clean_trim(Append(out, 0), Len(out))]

\* Faulty variant: the payload is terminated but not trimmed.
clean_finish_no_trim(raw, out, found_data) ==
    IF ~found_data
    THEN IF strstr_found(raw, Str(<<"N","O"," ","D","A","T","A">>))
         THEN [r |-> OBD_ERROR_NO_DATA, out |-> <<0>>]
         ELSE IF \/ strstr_found(raw, Str(<<"?">>))
                 \/ strstr_found(raw, Str(<<"E","R","R","O","R">>))
         THEN [r |-> OBD_ERROR_ELM_ERROR, out |-> <<0>>]
         ELSE [r |-> OBD_ERROR_PARSE_FAILED, out |-> <<0>>]
    ELSE [r |-> OBD_OK, out |-> Append(out, 0)]

\* The code after the loop of obd_elm327_clean_response: the error outcomes
\* when no data line was copied, else the terminator and the trailing trim.
clean_finish(raw, out, found_data) ==
    IF ~found_data
    THEN IF strstr_found(raw, Str(<<"N","O"," ","D","A","T","A">>))
         THEN [r |-> OBD_ERROR_NO_DATA, out |-> <<0>>]
         ELSE IF \/ strstr_found(raw, Str(<<"?">>))
                 \/ strstr_found(raw, Str(<<"E","R","R","O","R">>))
         THEN [r |-> OBD_ERROR_ELM_ERROR, out |-> <<0>>]
         ELSE [r |-> OBD_ERROR_PARSE_FAILED, out |-> <<0>>]
    ELSE [r |-> OBD_OK, out |-> clean_trim(Append(out, 0), Len(out))]

\* The while loop of obd_elm327_clean_response from read position p, with
\* `out` the cells written so far (out_pos = Len(out)).
RECURSIVE clean_loop(_, _, _, _, _)
clean_loop(raw, out_size, p, out, found_data) ==
    IF At(raw, p) = 0 THEN clean_finish(raw, out, found_data)
    ELSE
    LET line_start == skip_chars(raw, p, {Ch("\r"), Ch("\n")}) IN
    IF At(raw, line_start) = 0 \/ At(raw, line_start) = Ch(">")
    THEN clean_finish(raw, out, found_data)
    ELSE
    LET pe == clean_line_end(raw, line_start)
        sp == skip_chars(raw, line_start, {Ch(" "), Ch("\t")})
        lp == IF sp < pe THEN sp ELSE pe
    IN
    IF lp >= pe THEN clean_loop(raw, out_size, pe, out, found_data)
    ELSE
    LET line_len == IF pe - lp >= OBD_MAX_RESPONSE_LEN
                    THEN OBD_MAX_RESPONSE_LEN - 1 ELSE pe - lp
        line_buf == SubSeq(raw, lp + 1, lp + line_len)
        type     == obd_elm327_classify_response(line_buf)
    IN
    IF type # OBD_ELM_RESPONSE_DATA
    THEN clean_loop(raw, out_size, pe, out, found_data)
    ELSE IF clean_line_skipped(raw, lp, pe)
    THEN clean_loop(raw, out_size, pe, out, found_data)
    ELSE
    LET copied == clean_copy_line(out, out_size, found_data, SubSeq(raw, lp + 1, pe))
    IN
    IF copied.full
    THEN [r |-> OBD_ERROR_BUFFER_TOO_SMALL, out |-> copied.out]
    ELSE clean_loop(raw, out_size, pe, copied.out, TRUE)

\* obd_elm327_clean_response(raw, out, out_size), out not NULL.
\* out: the cells of the output buffer written, from index 0.
obd_elm327_clean_response(raw, out_size) ==
    IF raw = NULL \/ out_size = 0
    THEN [r |-> OBD_ERROR_INVALID_ARG, out |-> <<>>]
    ELSE clean_loop(raw, out_size, 0, <<>>, FALSE)

(***************************************************************************)
(* The classifier under test: one call on one line.                        *)
(***************************************************************************)

\* Longest run of leading whitespace put before a line.
MaxWs == 1

\* Longest line made of arbitrary characters.
MaxLineLen == 3

WsChars == {Ch(" "), Ch("\t"), Ch("\r"), Ch("\n")}

\* The tokens the classifier looks for.
TokOK       == Str(<<"O","K">>)
TokNoData   == Str(<<"N","O"," ","D","A","T","A">>)
TokError    == Str(<<"E","R","R","O","R">>)
TokUnable   == Str(<<"U","N","A","B","L","E"," ","T","O"," ","C","O","N","N","E","C","T">>)
TokBusInit  == Str(<<"B","U","S"," ","I","N","I","T">>)
TokCanError == Str(<<"C","A","N"," ","E","R","R","O","R">>)
TokStopped  == Str(<<"S","T","O","P","P","E","D">>)
TokElm      == Str(<<"E","L","M">>)
ErrorTokens == {TokError, TokUnable, TokBusInit, TokCanError, TokStopped}
Tokens      == {TokOK, TokNoData, TokElm, Str(<<">">>), Str(<<"?">>)} \cup ErrorTokens

\* What follows a token, or a part of one, in a line.
LineTails == {<<>>, Str(<<"X">>), Str(<<" ">>), Str(<<"4","1">>), Str(<<"3","2","7">>)}

\* Lines: whitespace, then a token cut anywhere, then a tail; and every
\* short line over a few characters of each class.
ClassifyLines ==
    {ws \o Take(tok, k) \o tail :
        ws \in SeqsUpTo(WsChars, MaxWs), tok \in Tokens, k \in 0..17, tail \in LineTails}
    \cup SeqsUpTo({Ch("4"), Ch("E"), Ch("c"), Ch("O"), Ch("K"), Ch(">"), Ch("?"),
                   Ch(" "), Ch("g")}, MaxLineLen)
    \cup {NULL}

InitClassify ==
    /\ pc = "classify"
    /\ \E line \in ClassifyLines : arg = [response |-> line]
    /\ ret = [type |-> OBD_ELM_RESPONSE_UNKNOWN]

ClassifyResponse ==
    /\ pc = "classify"
    /\ ret' = [type |-> obd_elm327_classify_response(arg.response)]
    /\ pc' = "done"
    /\ UNCHANGED arg

NextClassify == ClassifyResponse

SpecClassify == InitClassify /\ [][NextClassify]_vars

(***************************************************************************)
(* The cleaner under test: one call on one raw transcript.                 *)
(***************************************************************************)

\* Longest transcript made of arbitrary characters.
MaxRawLen == 5

\* Most pieces (lines, separators, prompts) a composed transcript is made of.
MaxPieces == 3

RawChars == {Ch("4"), Ch("0"), Ch(" "), Ch("\r"), Ch(">")}

RawPieces ==
    { Str(<<"\r">>), Str(<<"\n">>), Str(<<">">>), Str(<<" ","\t">>),
      Str(<<"0","1","0","C">>), Str(<<"4","1"," ","0","C"," ","1","A"," ","F","8">>),
      Str(<<" ","7","F"," ","0","1"," ">>),
      TokNoData, TokError, Str(<<"?">>), TokOK, Str(<<"A","T","E","0">>) }

RECURSIVE Concat(_)
Concat(ss) == IF ss = <<>> THEN <<>> ELSE Head(ss) \o Concat(Tail(ss))

\* The canned transcripts of tests/test_data.h.
TEST_RAW_RPM_RESPONSE ==
    Str(<<"0","1","0","C","\r","4","1"," ","0","C"," ","1","A"," ","F","8","\r","\r",">">>)
TEST_RAW_NO_DATA_RESPONSE ==
    Str(<<"0","1","0","0","\r","N","O"," ","D","A","T","A","\r","\r",">">>)
TEST_RAW_ERROR_RESPONSE == Str(<<"A","T","Z","Z","\r","?","\r","\r",">">>)
TEST_RAW_OK_RESPONSE == Str(<<"A","T","E","0","\r","O","K","\r","\r",">">>)
TEST_RAW_RESET_RESPONSE ==
    Str(<<"A","T","Z","\r","\r","E","L","M","3","2","7"," ","1",".","5","\r","\r",">">>)
TEST_CLEAN_RPM == Str(<<"4","1"," ","0","C"," ","1","A"," ","F","8">>)

\* One line "XY 0C" for each first byte XY, upper and lower case, then a prompt.
FirstByteRaws ==
    {<<hex_chars(hi), hex_chars(lo)>> \o Str(<<" ","0","C","\r",">">>) :
        hi \in 0..15, lo \in 0..15}
    \cup {Str(<<"c","0","\r",">">>), Str(<<"3","f">>), Str(<<"b","F"," ">>)}

RawInputs ==
    SeqsUpTo(RawChars, MaxRawLen)
    \cup {Concat(ps) : ps \in SeqsUpTo(RawPieces, MaxPieces)}
    \cup FirstByteRaws
    \cup {TEST_RAW_RPM_RESPONSE, TEST_RAW_NO_DATA_RESPONSE, TEST_RAW_ERROR_RESPONSE,
          TEST_RAW_OK_RESPONSE, TEST_RAW_RESET_RESPONSE}

OutSizes == {1, 3, 4, 6, 12, 64}

InitClean ==
    /\ pc = "clean"
    /\ \E raw \in RawInputs, n \in OutSizes : arg = [raw |-> raw, out_size |-> n]
    /\ ret = [r |-> OBD_OK, out |-> <<>>]

CleanResponse ==
    /\ pc = "clean"
    /\ ret' = obd_elm327_clean_response(arg.raw, arg.out_size)
    /\ pc' = "done"
    /\ UNCHANGED arg

NextClean == CleanResponse

SpecClean == InitClean /\ [][NextClean]_vars

(***************************************************************************)
(* The cleaner's result, stated over whole lines                           *)
(***************************************************************************)

IsHexDigit(c) ==
    c \in (Ch("0")..Ch("9")) \cup (Ch("A")..Ch("F")) \cup (Ch("a")..Ch("f"))

\* 1-based position of the first '>' of raw, Len(raw) + 1 when there is none.
PromptPos(raw) ==
    IF \E i \in 1..Len(raw) : raw[i] = Ch(">")
    THEN CHOOSE i \in 1..Len(raw) :
            raw[i] = Ch(">") /\ \A j \in 1..(i - 1) : raw[j] # Ch(">")
    ELSE Len(raw) + 1

BeforePrompt(raw) == SubSeq(raw, 1, PromptPos(raw) - 1)

AfterPrompt(raw) == SubSeq(raw, PromptPos(raw) + 1, Len(raw))

\* The segments of s between its CR and LF characters, in order.
RECURSIVE SplitLines(_)
SplitLines(s) ==
    LET brk == {i \in 1..Len(s) : s[i] \in {Ch("\r"), Ch("\n")}} IN
    IF brk = {} THEN <<s>>
    ELSE LET i == CHOOSE k \in brk : \A m \in brk : k <= m
         IN  <<SubSeq(s, 1, i - 1)>> \o SplitLines(SubSeq(s, i + 1, Len(s)))

\* s without its leading spaces and tabs.
RECURSIVE LStrip(_)
LStrip(s) ==
    IF s # <<>> /\ Head(s) \in {Ch(" "), Ch("\t")} THEN LStrip(Tail(s)) ELSE s

\* s without its trailing spaces and tabs.
RECURSIVE RStrip(_)
RStrip(s) ==
    IF s # <<>> /\ s[Len(s)] \in {Ch(" "), Ch("\t")}
    THEN RStrip(SubSeq(s, 1, Len(s) - 1)) ELSE s

\* The byte the first two characters of a line spell, -1 when they are not
\* two hex digits.
FirstByte(line) ==
    IF Len(line) >= 2 /\ IsHexDigit(line[1]) /\ IsHexDigit(line[2])
    THEN hex_char_to_nibble(line[1]) * 16 + hex_char_to_nibble(line[2])
    ELSE -1

\* The lines before the prompt, each without its leading spaces and tabs.
LinesOf(raw) ==
    LET ls == SplitLines(BeforePrompt(raw)) IN [i \in 1..Len(ls) |-> LStrip(ls[i])]

IsDataLine(line) ==
    line # <<>> /\ obd_elm327_classify_response(line) = OBD_ELM_RESPONSE_DATA

\* A line survives when it is classified Data and is not dropped as an echo.
Survives(line) == IsDataLine(line) /\ FirstByte(line) >= 64

SurvivingLines(raw) == SelectSeq(LinesOf(raw), Survives)

RECURSIVE JoinCR(_)
JoinCR(lines) ==
    IF lines = <<>> THEN <<>>
    ELSE IF Len(lines) = 1 THEN lines[1]
    ELSE lines[1] \o <<Ch("\r")>> \o JoinCR(Tail(lines))

Payload(raw) == RStrip(JoinCR(SurvivingLines(raw)))

Contains(s, word) ==
    \E a \in 0..Len(s) : \E b \in a..Len(s) : SubSeq(s, a + 1, b) = word

Called == pc = "done" /\ arg.raw # NULL

\* C2, as stated: whenever a line survives the call returns OK and the
\* output is the surviving lines joined by single CRs, trailing blanks cut.
CleanPayloadAnyCapacity ==
    (Called /\ SurvivingLines(arg.raw) # <<>>) =>
        /\ ret.r = OBD_OK
        /\ CStr(ret.out) = Payload(arg.raw)

\* C2, amended: whenever a line survives and the joined lines with their
\* NUL fit in out_size, the call returns OK and the output is the surviving
\* lines (leading blanks removed) in transcript order, joined by exactly one
\* CR, with the blanks at the very end removed; the canned RPM transcript
\* yields "41 0C 1A F8".
CleanPayload ==
    /\ (Called /\ SurvivingLines(arg.raw) # <<>>
               /\ Len(JoinCR(SurvivingLines(arg.raw))) < arg.out_size) =>
          /\ ret.r = OBD_OK
          /\ CStr(ret.out) = Payload(arg.raw)
    /\ (Called /\ arg.raw = TEST_RAW_RPM_RESPONSE /\ arg.out_size >= 12) =>
          /\ ret.r = OBD_OK
          /\ CStr(ret.out) = TEST_CLEAN_RPM

\* Two lines survived, with leading and trailing blanks to remove, and were
\* joined.
CleanPayloadWitness ==
    /\ Called
    /\ ret.r = OBD_OK
    /\ Len(SurvivingLines(arg.raw)) = 2
    /\ JoinCR(SurvivingLines(arg.raw)) # Payload(arg.raw)
    /\ Head(arg.raw) = Ch(" ")
    /\ Len(CStr(ret.out)) >= 5

\* C3: when no data line survives the result is NoData if raw contains
\* "NO DATA", else ElmError if it contains "?" or "ERROR", else ParseFailed,
\* and the output is the empty string.
CleanErrorOutcomes ==
    (Called /\ arg.out_size >= 1 /\ SurvivingLines(arg.raw) = <<>>) =>
        /\ ret.r = IF Contains(arg.raw, TokNoData) THEN OBD_ERROR_NO_DATA
                   ELSE IF Contains(arg.raw, Str(<<"?">>)) \/ Contains(arg.raw, TokError)
                   THEN OBD_ERROR_ELM_ERROR
                   ELSE OBD_ERROR_PARSE_FAILED
        /\ ret.out = <<0>>
        /\ arg.raw = TEST_RAW_OK_RESPONSE => ret.r = OBD_ERROR_PARSE_FAILED
        /\ arg.raw = TEST_RAW_NO_DATA_RESPONSE => ret.r = OBD_ERROR_NO_DATA
        /\ arg.raw = TEST_RAW_ERROR_RESPONSE => ret.r = OBD_ERROR_ELM_ERROR

\* "NO DATA" and an error token were both present, and NoData won.
CleanErrorOutcomesWitness ==
    /\ Called
    /\ ret.r = OBD_ERROR_NO_DATA
    /\ Contains(arg.raw, TokError)
    /\ Contains(arg.raw, Str(<<"?">>))

\* The lines classified Data whose first two characters spell a byte.
DecodableDataLines(raw) ==
    SelectSeq(LinesOf(raw), LAMBDA l : IsDataLine(l) /\ FirstByte(l) >= 0)

\* A transcript with one such line, and room for it: the line was kept
\* exactly when the call returned OK.
OneDataLine ==
    /\ Called
    /\ Len(DecodableDataLines(arg.raw)) = 1
    /\ Len(DecodableDataLines(arg.raw)[1]) < arg.out_size

HasBit40(b) == (b \div 64) % 2 = 1

\* C4, as stated: a Data line is kept exactly when the 0x40 bit of its first
\* byte is set.
EchoFilterByBit ==
    OneDataLine =>
        (ret.r = OBD_OK <=> HasBit40(FirstByte(DecodableDataLines(arg.raw)[1])))

\* C4, amended: for every first byte 0x00..0xFF a Data line is discarded as
\* an echo exactly when the byte is below 0x40 and kept exactly when it is
\* 0x40 or more (0x80..0xBF, which lack the 0x40 bit, are kept).
EchoFilterByValue ==
    OneDataLine =>
        LET line == DecodableDataLines(arg.raw)[1] IN
        /\ FirstByte(line) >= 64 =>
              ret.r = OBD_OK /\ CStr(ret.out) = RStrip(line)
        /\ FirstByte(line) < 64 =>
              /\ ret.r \in {OBD_ERROR_NO_DATA, OBD_ERROR_ELM_ERROR, OBD_ERROR_PARSE_FAILED}
              /\ ret.out = <<0>>

\* A line whose first byte is 0x80..0xBF (no 0x40 bit) was kept.
EchoFilterByValueWitness ==
    /\ OneDataLine
    /\ FirstByte(DecodableDataLines(arg.raw)[1]) \in 128..191
    /\ ret.r = OBD_OK

\* C5: no cell at index >= out_size is ever written; when the joined lines
\* and their NUL do not fit the result is BufferTooSmall; and an OK output
\* holds every surviving line in full (only blanks at the very end are cut).
CleanNoTruncation ==
    (Called /\ arg.out_size >= 1) =>
        LET joined == JoinCR(SurvivingLines(arg.raw)) IN
        /\ Len(ret.out) <= arg.out_size
        /\ (SurvivingLines(arg.raw) # <<>> /\ Len(joined) + 1 > arg.out_size)
              => ret.r = OBD_ERROR_BUFFER_TOO_SMALL
        /\ ret.r = OBD_OK =>
              LET text == CStr(ret.out) IN
              /\ Len(text) <= Len(joined)
              /\ SubSeq(joined, 1, Len(text)) = text
              /\ \A i \in (Len(text) + 1)..Len(joined) :
                    joined[i] \in {Ch(" "), Ch("\t")}

\* The buffer was filled to its last cell but one before the overflow showed.
CleanNoTruncationWitness ==
    /\ Called
    /\ ret.r = OBD_ERROR_BUFFER_TOO_SMALL
    /\ Len(ret.out) = arg.out_size - 1
    /\ Len(ret.out) >= 2

\* C6: the call returns OK with payload P exactly when the call on the text
\* before the first '>' does; nothing after the first '>' contributes.
CleanStopsAtPrompt ==
    Called =>
        LET cut == obd_elm327_clean_response(BeforePrompt(arg.raw), arg.out_size) IN
        /\ ret.r = OBD_OK <=> cut.r = OBD_OK
        /\ ret.r = OBD_OK => CStr(ret.out) = CStr(cut.out)
        /\ ret.r = OBD_OK => CStr(ret.out) = Payload(BeforePrompt(arg.raw))

\* A '>' in the middle of a line, a data line after it, and an OK result.
CleanStopsAtPromptWitness ==
    /\ Called
    /\ ret.r = OBD_OK
    /\ PromptPos(arg.raw) \in 2..Len(arg.raw)
    /\ IsHexDigit(arg.raw[PromptPos(arg.raw) - 1])
    /\ SurvivingLines(AfterPrompt(arg.raw)) # <<>>

(***************************************************************************)
(* The classifier's result, stated as a decision list                      *)
(***************************************************************************)

\* s without its leading space, tab, CR and LF characters.
RECURSIVE Trim(_)
Trim(s) == IF s # <<>> /\ Head(s) \in WsChars THEN Trim(Tail(s)) ELSE s

HasPrefix(s, word) == Len(s) >= Len(word) /\ SubSeq(s, 1, Len(word)) = word

DecisionList(line) ==
    IF line = NULL \/ Trim(line) = <<>> THEN OBD_ELM_RESPONSE_UNKNOWN
    ELSE LET t == Trim(line) IN
         CASE t[1] = Ch(">")         -> OBD_ELM_RESPONSE_PROMPT
           [] HasPrefix(t, TokOK)     -> OBD_ELM_RESPONSE_OK
           [] HasPrefix(t, TokNoData) -> OBD_ELM_RESPONSE_NO_DATA
           [] t[1] = Ch("?") \/ \E word \in ErrorTokens : HasPrefix(t, word)
                                      -> OBD_ELM_RESPONSE_ERROR
           [] HasPrefix(t, TokElm)    -> OBD_ELM_RESPONSE_OK
           [] OTHER -> IF IsHexDigit(t[1]) THEN OBD_ELM_RESPONSE_DATA
                       ELSE OBD_ELM_RESPONSE_UNKNOWN

\* C7: the classification equals the ordered decision list applied to the
\* line without its leading whitespace; leading whitespace never changes
\* it; and a line that begins with ERROR, ELM, BUS INIT or CAN ERROR is
\* never classified Data.
ClassifyDecisionList ==
    pc = "done" =>
        /\ ret.type = DecisionList(arg.response)
        /\ arg.response # NULL =>
              /\ \A ws \in SeqsUpTo(WsChars, 2) :
                    obd_elm327_classify_response(ws \o arg.response) = ret.type
              /\ (\E word \in {TokError, TokElm, TokBusInit, TokCanError} :
                    HasPrefix(Trim(arg.response), word))
                 => ret.type # OBD_ELM_RESPONSE_DATA

\* An ELM banner behind leading whitespace was classified Ok.
ClassifyDecisionListWitness ==
    /\ pc = "done"
    /\ arg.response # NULL
    /\ Trim(arg.response) # arg.response
    /\ HasPrefix(Trim(arg.response), TokElm)
    /\ ret.type = OBD_ELM_RESPONSE_OK

(***************************************************************************)
(* obd_types.h: sizes                                                      *)
(***************************************************************************)
OBD_MAX_DATA_BYTES == 7
OBD_MAX_DTCS == 32

\* A caller's struct the function returned without writing to.
Unset == [set |-> FALSE]

(***************************************************************************)
(* pid.c                                                                   *)
(***************************************************************************)

\* obd_pid_parse_response(response, out), out not NULL.
obd_pid_parse_response(response) ==
    IF response = NULL THEN [r |-> OBD_ERROR_INVALID_ARG, out |-> Unset]
    ELSE
    LET conv       == obd_hex_to_bytes(response, 2 + OBD_MAX_DATA_BYTES)
        bytes      == conv.out
        byte_count == conv.out_len
    IN
    IF conv.r # OBD_OK THEN [r |-> conv.r, out |-> Unset]
    ELSE IF byte_count < 2 THEN [r |-> OBD_ERROR_PARSE_FAILED, out |-> Unset]
    ELSE
    LET data_len == IF byte_count - 2 > OBD_MAX_DATA_BYTES
                    THEN OBD_MAX_DATA_BYTES ELSE byte_count - 2
    IN  [r   |-> OBD_OK,
         out |-> [set      |-> TRUE,
                  mode     |-> bytes[1],
                  pid      |-> bytes[2],
                  data_len |-> data_len,
                  data     |-> [i \in 1..OBD_MAX_DATA_BYTES |->
                                   IF i <= data_len THEN bytes[2 + i] ELSE 0]]]

(***************************************************************************)
(* dtc.c                                                                   *)
(***************************************************************************)

\* Faulty variant: the letters of Chassis and Body change places.
dtc_category_chars_swapped(cat_bits) ==
    CASE cat_bits = 0 -> Ch("P") [] cat_bits = 1 -> Ch("B")
      [] cat_bits = 2 -> Ch("C") [] cat_bits = 3 -> Ch("U")

\* dtc_category_chars[cat_bits].
dtc_category_chars(cat_bits) ==
    CASE cat_bits = 0 -> Ch("P") [] cat_bits = 1 -> Ch("C")
      [] cat_bits = 2 -> Ch("B") [] cat_bits = 3 -> Ch("U")

\* Faulty variant: the second digit is read from bits 1..0 of byte1.
parse_single_dtc_low_bits(byte1, byte2) ==
    LET cat_bits == (byte1 \div 64) % 4
        d2 == byte1 % 4
        d3 == byte1 % 16
        d4 == (byte2 \div 16) % 16
        d5 == byte2 % 16
    IN  [category  |-> cat_bits,
         code      |-> d2 * 4096 + d3 * 256 + d4 * 16 + d5,
         formatted |-> <<dtc_category_chars(cat_bits), Ch("0") + d2,
                         hex_chars(d3), hex_chars(d4), hex_chars(d5), 0>>]

parse_single_dtc(byte1, byte2) ==
    LET cat_bits == (byte1 \div 64) % 4
        d2 == (byte1 \div 16) % 4
        d3 == byte1 % 16
        d4 == (byte2 \div 16) % 16
        d5 == byte2 % 16
    IN  [category  |-> cat_bits,
         code      |-> d2 * 4096 + d3 * 256 + d4 * 16 + d5,
         formatted |-> <<dtc_category_chars(cat_bits), Ch("0") + d2,
                         hex_chars(d3), hex_chars(d4), hex_chars(d5), 0>>]

\* One iteration of the while loop of obd_dtc_parse_response.  st.i is the
\* byte index, st.dtcs the entries stored so far (out->count = Len(st.dtcs));
\* the state is left as it is once the loop condition is false.
dtc_step(bytes, byte_count, st) ==
    IF st.i + 1 < byte_count /\ Len(st.dtcs) < OBD_MAX_DTCS
    THEN LET b1 == bytes[st.i + 1]
             b2 == bytes[st.i + 2]
         IN  IF b1 = 0 /\ b2 = 0
             THEN [st EXCEPT !.i = st.i + 2]
             ELSE [i |-> st.i + 2, dtcs |-> Append(st.dtcs, parse_single_dtc(b1, b2))]
    ELSE st

\* k iterations of the loop.
RECURSIVE dtc_run(_, _, _, _)
dtc_run(bytes, byte_count, st, k) ==
    IF k = 0 THEN st
    ELSE IF k = 1 THEN dtc_step(bytes, byte_count, st)
    ELSE LET half == dtc_run(bytes, byte_count, st, k \div 2)
         IN  IF half.i + 1 < byte_count /\ Len(half.dtcs) < OBD_MAX_DTCS
             THEN dtc_run(bytes, byte_count, half, k - k \div 2)
             ELSE half

\* The while loop: every iteration consumes two bytes, so the condition is
\* false after at most byte_count / 2 iterations.
dtc_loop(bytes, byte_count) ==
    dtc_run(bytes, byte_count, [i |-> 1, dtcs |-> <<>>], byte_count \div 2).dtcs

\* The size of the scratch array `uint8_t bytes[64]`.
DtcScratchBytes == 64

\* obd_dtc_parse_response(response, out), out not NULL.  The list is
\* cleared before the text is decoded, so every error but InvalidArg
\* leaves an empty list.
obd_dtc_parse_response(response) ==
    IF response = NULL THEN [r |-> OBD_ERROR_INVALID_ARG, out |-> Unset]
    ELSE
    LET conv  == obd_hex_to_bytes(response, DtcScratchBytes)
        empty == [set |-> TRUE, count |-> 0, dtcs |-> <<>>]
    IN
    IF conv.r # OBD_OK THEN [r |-> conv.r, out |-> empty]
    ELSE IF conv.out_len < 1 THEN [r |-> OBD_ERROR_PARSE_FAILED, out |-> empty]
    ELSE IF conv.out[1] # 67 THEN [r |-> OBD_ERROR_PARSE_FAILED, out |-> empty]
    ELSE LET dtcs == dtc_loop(conv.out, conv.out_len)
         IN  [r |-> OBD_OK, out |-> [set |-> TRUE, count |-> Len(dtcs), dtcs |-> dtcs]]

(***************************************************************************)
(* Texts for the parsers: byte arrays written as the adapter writes them.  *)
(***************************************************************************)

\* "XX XX XX" for a byte array.
HexText(bytes) == CStr(obd_bytes_to_hex(bytes, Len(bytes), 3 * Len(bytes) + 1).out)

\* Texts no parser accepts, and the NULL pointer.
BadTexts ==
    {NULL, Str(<<"Z","Z"," ","X","X">>), Str(<<"4">>), Str(<<"4","3"," ","0">>),
     Str(<<"4","3"," ","0"," ","1">>), Str(<<" ">>)}

(***************************************************************************)
(* The PID parser under test: one call on one cleaned payload.             *)
(***************************************************************************)

\* Most bytes a payload decodes to (mode and pid included).
MaxPidBytes == 11

\* The bytes of a payload of n bytes: mode, pid, then data k, 2k, 3k, ...
PidPayload(n, mode, pid, k) ==
    [i \in 1..n |-> IF i = 1 THEN mode ELSE IF i = 2 THEN pid
                    ELSE (k * (i - 2) + 16 * k) % 256]

PidTexts ==
    {HexText(PidPayload(n, mode, pid, k)) :
        n \in 0..MaxPidBytes, mode \in {65, 1, 127}, pid \in {12, 13, 1},
        k \in {1, 7, 37}}
    \cup {HexText(PidPayload(n, 65, 12, 1)) \o Str(<<" ","Z","Z">>) : n \in 1..MaxPidBytes}
    \cup {Str(<<"4","1","0","c","1","a","f","8">>),
          Str(<<"4","1"," ","0","C","\r","1","A","\t","F","8","\n">>)}
    \cup BadTexts

InitPid ==
    /\ pc = "parse_pid"
    /\ \E t \in PidTexts : arg = [response |-> t]
    /\ ret = [r |-> OBD_OK, out |-> Unset]

PidParseResponse ==
    /\ pc = "parse_pid"
    /\ ret' = obd_pid_parse_response(arg.response)
    /\ pc' = "done"
    /\ UNCHANGED arg

NextPid == PidParseResponse

SpecPid == InitPid /\ [][NextPid]_vars

\* The bytes a text spells, decoded with room for all of them.
Decoded(text) == obd_hex_to_bytes(text, Len(text))

IsValidHex(text) == text # NULL /\ Decoded(text).r = OBD_OK

\* C8: a valid payload of more than 9 bytes parses with OK, data_len = 7
\* and the first 7 data bytes; the excess is dropped without an error.
PidSilentCap ==
    (pc = "done" /\ IsValidHex(arg.response) /\ Decoded(arg.response).out_len > 9) =>
        /\ ret.r = OBD_OK
        /\ ret.out.set
        /\ ret.out.data_len = 7
        /\ ret.out.data = SubSeq(Decoded(arg.response).out, 3, 9)

\* C14: valid hex text of k bytes, 2 <= k <= 9, parses with OK to mode =
\* byte 0, pid = byte 1, data_len = k - 2 and data = bytes 2..k-1 (the rest
\* of data zero); fewer than 2 bytes give ParseFailed, malformed hex
\* InvalidHex, NULL InvalidArg.
PidStructure ==
    pc = "done" =>
        /\ arg.response = NULL => ret.r = OBD_ERROR_INVALID_ARG
        /\ (arg.response # NULL /\ ~IsValidHex(arg.response))
              => ret.r = OBD_ERROR_INVALID_HEX
        /\ (IsValidHex(arg.response) /\ Decoded(arg.response).out_len < 2)
              => ret.r = OBD_ERROR_PARSE_FAILED
        /\ (IsValidHex(arg.response) /\ Decoded(arg.response).out_len \in 2..9) =>
              LET bytes == Decoded(arg.response).out
                  k     == Decoded(arg.response).out_len
              IN  /\ ret.r = OBD_OK
                  /\ ret.out.mode = bytes[1]
                  /\ ret.out.pid = bytes[2]
                  /\ ret.out.data_len = k - 2
                  /\ ret.out.data = [i \in 1..7 |-> IF i <= k - 2 THEN bytes[2 + i] ELSE 0]

\* C15: every response returned with OK has the 0x40 bit set in its mode
\* byte; a payload whose first byte lacks the bit is not accepted.
PidModeInvariant ==
    pc = "done" =>
        /\ ret.r = OBD_OK => HasBit40(ret.out.mode)
        /\ (IsValidHex(arg.response) /\ Decoded(arg.response).out_len >= 1
                                     /\ ~HasBit40(Decoded(arg.response).out[1]))
              => ret.r # OBD_OK

(***************************************************************************)
(* The DTC parser under test: one call on one cleaned payload.             *)
(***************************************************************************)

\* Most bytes after the header in a payload of arbitrary bytes.
MaxDtcBody == 4

\* Most byte pairs after the header in a long payload.
MaxPairs == 34

DtcBodyBytes == {0, 1, 128, 193}

\* A long payload: the header, then n distinct codes (hi, 1), (hi, 2), ...,
\* with one padding pair put after the first code when pad is TRUE and one
\* odd byte at the end when odd is TRUE.
LongDtcPayload(n, hi, pad, odd) ==
    [i \in 1..(1 + 2 * n + IF odd THEN 1 ELSE 0) |->
        IF i = 1 THEN 67
        ELSE IF i > 2 * n + 1 THEN 5
        ELSE IF pad /\ i \div 2 = 2 THEN 0
        ELSE IF i % 2 = 0 THEN hi ELSE i \div 2]

\* The canned payloads of tests/test_data.h.
TEST_CLEAN_DTC_TWO_CODES ==
    Str(<<"4","3"," ","0","1"," ","0","3"," ","0","1"," ","0","4"," ","0","0"," ","0","0">>)
TEST_CLEAN_DTC_MIXED_CODES ==
    Str(<<"4","3"," ","0","1"," ","0","3"," ","4","1"," ","0","4"," ","8","0"," ","0","0">>)
TEST_CLEAN_DTC_NO_CODES ==
    Str(<<"4","3"," ","0","0"," ","0","0"," ","0","0"," ","0","0"," ","0","0"," ","0","0">>)
TEST_CLEAN_DTC_U_CODE ==
    Str(<<"4","3"," ","C","1"," ","2","3"," ","0","0"," ","0","0"," ","0","0"," ","0","0">>)

DtcTexts ==
    {HexText(<<h>> \o body) : h \in {67, 65}, body \in SeqsUpTo(DtcBodyBytes, MaxDtcBody)}
    \cup {HexText(LongDtcPayload(n, hi, pad, odd)) :
            n \in 29..MaxPairs, hi \in {1, 65}, pad \in BOOLEAN, odd \in BOOLEAN}
    \cup {TEST_CLEAN_DTC_TWO_CODES, TEST_CLEAN_DTC_MIXED_CODES,
          TEST_CLEAN_DTC_NO_CODES, TEST_CLEAN_DTC_U_CODE}
    \cup BadTexts

InitDtc ==
    /\ pc = "parse_dtc"
    /\ \E t \in DtcTexts : arg = [response |-> t]
    /\ ret = [r |-> OBD_OK, out |-> Unset]

DtcParseResponse ==
    /\ pc = "parse_dtc"
    /\ ret' = obd_dtc_parse_response(arg.response)
    /\ pc' = "done"
    /\ UNCHANGED arg

NextDtc == DtcParseResponse

SpecDtc == InitDtc /\ [][NextDtc]_vars

\* The complete byte pairs after the header byte, in order.
PairsAfterHeader(bytes) ==
    [k \in 1..((Len(bytes) - 1) \div 2) |-> <<bytes[2 * k], bytes[2 * k + 1]>>]

\* The pairs that are not the padding pair (0x00, 0x00).
CodePairs(bytes) == SelectSeq(PairsAfterHeader(bytes), LAMBDA pr : pr # <<0, 0>>)

\* A valid payload whose first byte is the header 0x43.
HasDtcHeader(text) ==
    IsValidHex(text) /\ Decoded(text).out_len >= 1 /\ Decoded(text).out[1] = 67

\* C9: a payload with more than 32 code pairs parses with OK and count = 32,
\* holding the first 32 codes in order; every OK result has count <= 32.
DtcCapacityCap ==
    pc = "done" =>
        /\ (HasDtcHeader(arg.response)
            /\ Len(CodePairs(Decoded(arg.response).out)) > 32) =>
              LET codes == CodePairs(Decoded(arg.response).out) IN
              /\ ret.r = OBD_OK
              /\ ret.out.count = 32
              /\ ret.out.dtcs = [k \in 1..32 |-> parse_single_dtc(codes[k][1], codes[k][2])]
        /\ ret.r = OBD_OK => ret.out.count <= 32

\* C10: a valid payload with header 0x43 (and no more code pairs than the
\* list holds) parses with OK to exactly its non-padding pairs, in order;
\* padding pairs add nothing and do not stop the parsing, (0x80, 0x00) is a
\* code, an odd last byte is ignored.
DtcFilterAndOrder ==
    (pc = "done" /\ HasDtcHeader(arg.response)
                 /\ Len(CodePairs(Decoded(arg.response).out)) <= 32) =>
        LET codes == CodePairs(Decoded(arg.response).out) IN
        /\ ret.r = OBD_OK
        /\ ret.out.count = Len(codes)
        /\ ret.out.dtcs =
              [k \in 1..Len(codes) |-> parse_single_dtc(codes[k][1], codes[k][2])]

\* C13: the result is one of OK, InvalidArg, InvalidHex, ParseFailed: NULL
\* gives InvalidArg, malformed hex InvalidHex, no decoded byte ParseFailed,
\* a first byte other than 0x43 ParseFailed, and every valid hex text whose
\* first byte is 0x43 gives OK.
DtcOutcomes ==
    pc = "done" =>
        /\ ret.r \in {OBD_OK, OBD_ERROR_INVALID_ARG, OBD_ERROR_INVALID_HEX,
                      OBD_ERROR_PARSE_FAILED}
        /\ arg.response = NULL => ret.r = OBD_ERROR_INVALID_ARG
        /\ (arg.response # NULL /\ ~IsValidHex(arg.response))
              => ret.r = OBD_ERROR_INVALID_HEX
        /\ (IsValidHex(arg.response) /\ Decoded(arg.response).out_len = 0)
              => ret.r = OBD_ERROR_PARSE_FAILED
        /\ (IsValidHex(arg.response) /\ Decoded(arg.response).out_len >= 1
                                     /\ Decoded(arg.response).out[1] # 67)
              => ret.r = OBD_ERROR_PARSE_FAILED
        /\ HasDtcHeader(arg.response) => ret.r = OBD_OK

(***************************************************************************)
(* The DTC parser on one byte pair: "43 b1 b2" for every b1 and b2.        *)
(***************************************************************************)

InitDtcPair ==
    /\ pc = "parse_pair"
    /\ \E b1 \in 0..255, b2 \in 0..255 :
          arg = [b1 |-> b1, b2 |-> b2, response |-> HexText(<<67, b1, b2>>)]
    /\ ret = [r |-> OBD_OK, out |-> Unset]

DtcParsePair ==
    /\ pc = "parse_pair"
    /\ ret' = obd_dtc_parse_response(arg.response)
    /\ pc' = "done"
    /\ UNCHANGED arg

NextDtcPair == DtcParsePair

SpecDtcPair == InitDtcPair /\ [][NextDtcPair]_vars

\* The sixteen upper-case hex digits and the four category letters.
UpperHex == Str(<<"0","1","2","3","4","5","6","7","8","9","A","B","C","D","E","F">>)

CategoryLetters == Str(<<"P","C","B","U">>)

\* The entry the pair (b1, b2) decodes to, with digit2 taken from the two
\* bits of b1 above the divisor d2shift (16 for bits 5..4).
EntryOf(b1, b2, d2shift) ==
    LET d2 == (b1 \div d2shift) % 4 IN
    [category  |-> b1 \div 64,
     code      |-> d2 * 4096 + (b1 % 16) * 256 + b2,
     formatted |-> <<CategoryLetters[(b1 \div 64) + 1], Ch("0") + d2,
                     UpperHex[(b1 % 16) + 1], UpperHex[(b2 \div 16) + 1],
                     UpperHex[(b2 % 16) + 1], 0>>]

\* The call on a pair that is not padding has returned its one entry.
PairDecoded == pc = "done" /\ <<arg.b1, arg.b2>> # <<0, 0>>

\* C11: for every byte pair the entry has category = b1 >> 6, code =
\* ((b1 & 0x3F) << 8) | b2 < 2^14, and formatted = the letter of "PCBU", the
\* decimal digit of bits 5..4 of b1, the upper-case hex digits of b1 & 0x0F,
\* b2 >> 4 and b2 & 0x0F, then NUL; (0xC1,0x23) is "U0123", (0x41,0x04) is
\* "C0104".
DtcPairDecoding ==
    /\ parse_single_dtc(arg.b1, arg.b2).category = arg.b1 \div 64
    /\ parse_single_dtc(arg.b1, arg.b2).code = (arg.b1 % 64) * 256 + arg.b2
    /\ PairDecoded =>
          /\ ret.r = OBD_OK
          /\ ret.out.count = 1
          /\ ret.out.dtcs[1] = EntryOf(arg.b1, arg.b2, 16)
          /\ ret.out.dtcs[1].code = (arg.b1 % 64) * 256 + arg.b2
          /\ ret.out.dtcs[1].code < 16384
          /\ Len(CStr(ret.out.dtcs[1].formatted)) = 5
          /\ <<arg.b1, arg.b2>> = <<193, 35>> =>
                CStr(ret.out.dtcs[1].formatted) = Str(<<"U","0","1","2","3">>)
          /\ <<arg.b1, arg.b2>> = <<65, 4>> =>
                CStr(ret.out.dtcs[1].formatted) = Str(<<"C","0","1","0","4">>)

\* A Body code with every digit at its largest was decoded ("B3FFF").
DtcPairDecodingWitness ==
    /\ PairDecoded
    /\ arg.b1 = 191 /\ arg.b2 = 255
    /\ ret.out.count = 1
    /\ CStr(ret.out.dtcs[1].formatted) = Str(<<"B","3","F","F","F">>)

\* C12, as stated: digit2 is byte1 & 0x03.
DtcDigit2LowBits ==
    PairDecoded =>
        /\ ret.out.count = 1
        /\ ret.out.dtcs[1].formatted[2] = Ch("0") + (arg.b1 % 4)
        /\ ret.out.dtcs[1].code \div 4096 = arg.b1 % 4

\* C12, amended: digit2 (the second character of the formatted string and
\* the top 2 bits of the 14-bit code) is bits 5..4 of byte1,
\* (byte1 >> 4) & 0x03, and digit3 is the low nibble of byte1.
DtcDigit2Bits54 ==
    PairDecoded =>
        /\ ret.out.count = 1
        /\ ret.out.dtcs[1].formatted[2] = Ch("0") + ((arg.b1 \div 16) % 4)
        /\ ret.out.dtcs[1].code \div 4096 = (arg.b1 \div 16) % 4
        /\ ret.out.dtcs[1].formatted[3] = UpperHex[(arg.b1 % 16) + 1]
        /\ (ret.out.dtcs[1].code \div 256) % 16 = arg.b1 % 16

\* Bits 5..4 and bits 1..0 of byte1 differ, and digit2 followed bits 5..4.
DtcDigit2Bits54Witness ==
    /\ PairDecoded
    /\ arg.b1 = 33 /\ arg.b2 = 3
    /\ CStr(ret.out.dtcs[1].formatted) = Str(<<"P","2","1","0","3">>)

(***************************************************************************)
(* float: single-precision values and arithmetic                           *)
(***************************************************************************)

\* The number of significand bits of a float.
FLT_MANT_DIG == 24

RECURSIVE Pow2(_)
Pow2(n) == IF n <= 0 THEN 1 ELSE 2 * Pow2(n - 1)

Abs(n) == IF n < 0 THEN 0 - n ELSE n

\* A float is held as [m, e], the value m * 2^e, with m odd (or m = e = 0).
RECURSIVE FloatNorm(_, _)
FloatNorm(m, e) ==
    IF m = 0 THEN [m |-> 0, e |-> 0]
    ELSE IF m % 2 = 0 THEN FloatNorm(m \div 2, e + 1)
    ELSE [m |-> m, e |-> e]

\* The least k >= 0 with a * 2^k >= b, for a > 0.
RECURSIVE ShiftUp(_, _)
ShiftUp(a, b) == IF a >= b THEN 0 ELSE 1 + ShiftUp(2 * a, b)

\* The greatest k >= 0 with b * 2^k <= a, for a >= b > 0.
RECURSIVE ShiftDown(_, _)
ShiftDown(a, b) == IF 2 * b > a THEN 0 ELSE 1 + ShiftDown(a, 2 * b)

\* n further quotient bits of r / Q after the bits M, by long division.
RECURSIVE DivBits(_, _, _, _)
DivBits(r, Q, M, n) ==
    IF n = 0 THEN [M |-> M, r |-> r]
    ELSE IF 2 * r >= Q THEN DivBits(2 * r - Q, Q, 2 * M + 1, n - 1)
    ELSE DivBits(2 * r, Q, 2 * M, n - 1)

\* Faulty variant: the quotient is cut off after its last bit, not rounded.
f_round_toward_zero(p, q) ==
    IF p = 0 THEN [m |-> 0, e |-> 0]
    ELSE LET P    == Abs(p)
             up   == IF P >= q THEN 0 ELSE ShiftUp(P, q)
             down == IF P >= q THEN ShiftDown(P, q) ELSE 0
             d    == DivBits(P * Pow2(up) - q * Pow2(down), q * Pow2(down), 1,
                             FLT_MANT_DIG - 1)
         IN  FloatNorm((IF p < 0 THEN 0 - d.M ELSE d.M),
                       down - up - (FLT_MANT_DIG - 1))

\* The float nearest to p / q (q > 0), ties to the even significand: what
\* one float operation with the exact result p / q returns.  An integer of
\* fewer than 25 bits is a float as it is.
f_round(p, q) ==
    IF p = 0 THEN [m |-> 0, e |-> 0]
    ELSE IF q = 1 /\ Abs(p) < Pow2(FLT_MANT_DIG) THEN FloatNorm(p, 0)
    ELSE LET P    == Abs(p)
             up   == IF P >= q THEN 0 ELSE ShiftUp(P, q)
             down == IF P >= q THEN ShiftDown(P, q) ELSE 0
             Q    == q * Pow2(down)
             d    == DivBits(P * Pow2(up) - Q, Q, 1, FLT_MANT_DIG - 1)
             M    == IF 2 * d.r > Q \/ (2 * d.r = Q /\ d.M % 2 = 1)
                     THEN d.M + 1 ELSE d.M
         IN  FloatNorm((IF p < 0 THEN 0 - M ELSE M),
                       down - up - (FLT_MANT_DIG - 1))

\* (float)n for an integer n.
f_int(n) == f_round(n, 1)

\* a + b, a - b, a * b and a / b on floats, each rounded to a float.
f_add(a, b) ==
    LET e == IF a.e < b.e THEN a.e ELSE b.e
        n == a.m * Pow2(a.e - e) + b.m * Pow2(b.e - e)
    IN  IF e >= 0 THEN f_round(n * Pow2(e), 1) ELSE f_round(n, Pow2(0 - e))

f_sub(a, b) == f_add(a, [m |-> 0 - b.m, e |-> b.e])

f_mul(a, b) ==
    LET e == a.e + b.e
    IN  IF e >= 0 THEN f_round(a.m * b.m * Pow2(e), 1)
        ELSE f_round(a.m * b.m, Pow2(0 - e))

f_div(a, b) ==
    LET sgn == IF b.m < 0 THEN 0 - 1 ELSE 1
        e   == a.e - b.e
    IN  IF e >= 0 THEN f_round(sgn * a.m * Pow2(e), Abs(b.m))
        ELSE f_round(sgn * a.m, Abs(b.m) * Pow2(0 - e))

(***************************************************************************)
(* sensor.c                                                                *)
(***************************************************************************)

\* The formula functions; data is the array data[0..6], data[i] = data[i + 1]
\* here.
formula_percent(data) == f_div(f_mul(f_int(data[1]), f_int(100)), f_int(255))

formula_temp_offset40(data) == f_sub(f_int(data[1]), f_int(40))

formula_rpm(data) ==
    f_div(f_add(f_mul(f_int(data[1]), f_int(256)), f_int(data[2])), f_int(4))

formula_direct(data) == f_int(data[1])

formula_timing_advance(data) == f_sub(f_div(f_int(data[1]), f_int(2)), f_int(64))

formula_maf(data) ==
    f_div(f_add(f_mul(f_int(data[1]), f_int(256)), f_int(data[2])), f_int(100))

formula_fuel_pressure(data) == f_mul(f_int(data[1]), f_int(3))

formula_o2_voltage(data) == f_div(f_int(data[1]), f_int(200))

formula_runtime(data) == f_add(f_mul(f_int(data[1]), f_int(256)), f_int(data[2]))

formula_dtc_count(data) == f_int(data[1] % 128)

formula_fuel_trim(data) ==
    f_div(f_mul(f_sub(f_int(data[1]), f_int(128)), f_int(100)), f_int(128))

\* entry->formula(data, data_len): the call through the table's pointer.
call_formula(formula, data) ==
    CASE formula = "percent"        -> formula_percent(data)
      [] formula = "temp_offset40"  -> formula_temp_offset40(data)
      [] formula = "rpm"            -> formula_rpm(data)
      [] formula = "direct"         -> formula_direct(data)
      [] formula = "timing_advance" -> formula_timing_advance(data)
      [] formula = "maf"            -> formula_maf(data)
      [] formula = "fuel_pressure"  -> formula_fuel_pressure(data)
      [] formula = "o2_voltage"     -> formula_o2_voltage(data)
      [] formula = "runtime"        -> formula_runtime(data)
      [] formula = "dtc_count"      -> formula_dtc_count(data)
      [] formula = "fuel_trim"      -> formula_fuel_trim(data)

sensor_table ==
    <<
      [pid |-> 1, name |-> Str(<<"D","T","C"," ","C","o","u","n","t">>),
       unit |-> <<>>, byte_count |-> 4, formula |-> "dtc_count"],
      [pid |-> 4, name |-> Str(<<"E","n","g","i","n","e"," ","L","o","a","d">>),
       unit |-> Str(<<"%">>), byte_count |-> 1, formula |-> "percent"],
      [pid |-> 5, name |-> Str(<<"C","o","o","l","a","n","t"," ","T","e","m","p","e","r","a","t","u","r","e">>),
       unit |-> Str(<<"C">>), byte_count |-> 1, formula |-> "temp_offset40"],
      [pid |-> 6, name |-> Str(<<"S","h","o","r","t"," ","T","e","r","m"," ","F","u","e","l"," ","T","r","i","m"," ","B","1">>),
       unit |-> Str(<<"%">>), byte_count |-> 1, formula |-> "fuel_trim"],
      [pid |-> 7, name |-> Str(<<"L","o","n","g"," ","T","e","r","m"," ","F","u","e","l"," ","T","r","i","m"," ","B","1">>),
       unit |-> Str(<<"%">>), byte_count |-> 1, formula |-> "fuel_trim"],
      [pid |-> 10, name |-> Str(<<"F","u","e","l"," ","P","r","e","s","s","u","r","e">>),
       unit |-> Str(<<"k","P","a">>), byte_count |-> 1, formula |-> "fuel_pressure"],
      [pid |-> 11, name |-> Str(<<"I","n","t","a","k","e"," ","M","a","n","i","f","o","l","d"," ","P","r","e","s","s","u","r","e">>),
       unit |-> Str(<<"k","P","a">>), byte_count |-> 1, formula |-> "direct"],
      [pid |-> 12, name |-> Str(<<"E","n","g","i","n","e"," ","R","P","M">>),
       unit |-> Str(<<"r","p","m">>), byte_count |-> 2, formula |-> "rpm"],
      [pid |-> 13, name |-> Str(<<"V","e","h","i","c","l","e"," ","S","p","e","e","d">>),
       unit |-> Str(<<"k","m","/","h">>), byte_count |-> 1, formula |-> "direct"],
      [pid |-> 14, name |-> Str(<<"T","i","m","i","n","g"," ","A","d","v","a","n","c","e">>),
       unit |-> Str(<<"d","e","g">>), byte_count |-> 1, formula |-> "timing_advance"],
      [pid |-> 15, name |-> Str(<<"I","n","t","a","k","e"," ","A","i","r"," ","T","e","m","p","e","r","a","t","u","r","e">>),
       unit |-> Str(<<"C">>), byte_count |-> 1, formula |-> "temp_offset40"],
      [pid |-> 16, name |-> Str(<<"M","A","F"," ","A","i","r"," ","F","l","o","w"," ","R","a","t","e">>),
       unit |-> Str(<<"g","/","s">>), byte_count |-> 2, formula |-> "maf"],
      [pid |-> 17, name |-> Str(<<"T","h","r","o","t","t","l","e"," ","P","o","s","i","t","i","o","n">>),
       unit |-> Str(<<"%">>), byte_count |-> 1, formula |-> "percent"],
      [pid |-> 20, name |-> Str(<<"O","2"," ","S","e","n","s","o","r"," ","1"," ","V","o","l","t","a","g","e">>),
       unit |-> Str(<<"V">>), byte_count |-> 1, formula |-> "o2_voltage"],
      [pid |-> 31, name |-> Str(<<"R","u","n"," ","T","i","m","e"," ","S","i","n","c","e"," ","S","t","a","r","t">>),
       unit |-> Str(<<"s","e","c">>), byte_count |-> 2, formula |-> "runtime"]
    >>

SENSOR_TABLE_SIZE == Len(sensor_table)

\* Faulty variant: the last row of the table is never looked at.
find_sensor_entry_short(pid) ==
    LET hits == {i \in 1..(SENSOR_TABLE_SIZE - 1) : sensor_table[i].pid = pid} IN
    IF hits = {} THEN 0 ELSE CHOOSE i \in hits : \A j \in hits : i <= j

\* find_sensor_entry(pid): the index of the first row with this pid, 0 for
\* the NULL result.
find_sensor_entry(pid) ==
    LET hits == {i \in 1..SENSOR_TABLE_SIZE : sensor_table[i].pid = pid} IN
    IF hits = {} THEN 0 ELSE CHOOSE i \in hits : \A j \in hits : i <= j

\* strncpy(dst, src, n) followed by dst[n] = '\0', on a buffer of n + 1
\* cells: the first n characters of src, the rest filled with NULs.
strncpy_term(src, n) == [i \in 1..(n + 1) |-> IF i <= n /\ i <= Len(src) THEN src[i] ELSE 0]

\* The sizes of the char arrays name[32] and unit[8] of obd_sensor_value_t.
SensorNameSize == 32
SensorUnitSize == 8

\* Faulty variant: the length check lets one byte fewer through.
sensor_too_short_off_by_one(data_len, byte_count) == data_len + 1 < byte_count

\* response->data_len < entry->byte_count.
sensor_too_short(data_len, byte_count) == data_len < byte_count

\* Faulty variant: a response whose mode is not 0x41 is refused.
obd_sensor_decode_checks_mode(response) ==
    LET entry == find_sensor_entry(response.pid) IN
    IF entry = 0 THEN [r |-> OBD_ERROR_UNKNOWN_PID, out |-> Unset]
    ELSE IF response.mode # 65 THEN [r |-> OBD_ERROR_PARSE_FAILED, out |-> Unset]
    ELSE IF sensor_too_short(response.data_len, sensor_table[entry].byte_count)
    THEN [r |-> OBD_ERROR_PARSE_FAILED, out |-> Unset]
    ELSE [r   |-> OBD_OK,
          out |-> [set   |-> TRUE,
                   pid   |-> response.pid,
                   value |-> call_formula(sensor_table[entry].formula, response.data),
                   name  |-> strncpy_term(sensor_table[entry].name, SensorNameSize - 1),
                   unit  |-> strncpy_term(sensor_table[entry].unit, SensorUnitSize - 1)]]

\* obd_sensor_decode(response, out), neither NULL; response is the struct
\* [mode, pid, data, data_len].
obd_sensor_decode(response) ==
    LET entry == find_sensor_entry(response.pid) IN
    IF entry = 0 THEN [r |-> OBD_ERROR_UNKNOWN_PID, out |-> Unset]
    ELSE IF sensor_too_short(response.data_len, sensor_table[entry].byte_count)
    THEN [r |-> OBD_ERROR_PARSE_FAILED, out |-> Unset]
    ELSE [r   |-> OBD_OK,
          out |-> [set   |-> TRUE,
                   pid   |-> response.pid,
                   value |-> call_formula(sensor_table[entry].formula, response.data),
                   name  |-> strncpy_term(sensor_table[entry].name, SensorNameSize - 1),
                   unit  |-> strncpy_term(sensor_table[entry].unit, SensorUnitSize - 1)]]

\* obd_sensor_get_name(pid, name, name_size), name the caller's buffer.
obd_sensor_get_name(pid, name, name_size) ==
    IF name = NULL \/ name_size = 0 THEN [r |-> OBD_ERROR_INVALID_ARG, name |-> name]
    ELSE LET entry == find_sensor_entry(pid) IN
         IF entry = 0 THEN [r |-> OBD_ERROR_UNKNOWN_PID, name |-> name]
         ELSE [r    |-> OBD_OK,
               name |-> strncpy_term(sensor_table[entry].name, name_size - 1)]

(***************************************************************************)
(* The sensor functions under test: one call on one response or pid.       *)
(***************************************************************************)

\* The greatest data_len a caller passes.
MaxDataLen == 8

SensorData == {<<26, 248, 0, 0, 0, 0, 0>>, <<255, 255, 255, 255, 255, 255, 255>>}

NameSizes == {1, 11, 32}

InitSensor ==
    /\ pc = "call"
    /\ \E pid \in 0..255, mode \in {65, 1}, data \in SensorData,
          data_len \in 0..MaxDataLen, name_size \in NameSizes :
          arg = [response  |-> [mode |-> mode, pid |-> pid, data |-> data,
                                data_len |-> data_len],
                 name      |-> [i \in 1..name_size |-> Ch("X")],
                 name_size |-> name_size]
    /\ ret = [r |-> OBD_OK, out |-> Unset]

SensorDecode ==
    /\ pc = "call"
    /\ ret' = obd_sensor_decode(arg.response)
    /\ pc' = "decoded"
    /\ UNCHANGED arg

SensorGetName ==
    /\ pc = "call"
    /\ ret' = obd_sensor_get_name(arg.response.pid, arg.name, arg.name_size)
    /\ pc' = "named"
    /\ UNCHANGED arg

NextSensor == SensorDecode \/ SensorGetName

SpecSensor == InitSensor /\ [][NextSensor]_vars

\* The pids of the table and the least data_len each one takes.
TablePids == {1, 4, 5, 6, 7, 10, 11, 12, 13, 14, 15, 16, 17, 20, 31}

MinBytes(pid) == IF pid = 1 THEN 4 ELSE IF pid \in {12, 16, 31} THEN 2 ELSE 1

\* C16: for a pid outside the table, decode and get_name return UnknownPid
\* and leave their outputs as they were; for a pid of the table both
\* return OK (decode when given enough data bytes).
SensorUnknownPid ==
    /\ (pc = "decoded" /\ arg.response.pid \notin TablePids) =>
          ret.r = OBD_ERROR_UNKNOWN_PID /\ ret.out = Unset
    /\ (pc = "named" /\ arg.response.pid \notin TablePids) =>
          ret.r = OBD_ERROR_UNKNOWN_PID /\ ret.name = arg.name
    /\ (pc = "decoded" /\ arg.response.pid \in TablePids
                       /\ arg.response.data_len >= MinBytes(arg.response.pid)) =>
          ret.r = OBD_OK
    /\ (pc = "named" /\ arg.response.pid \in TablePids) => ret.r = OBD_OK

\* A pid next to a table entry was refused with plenty of data.
SensorUnknownPidWitness ==
    /\ pc = "decoded"
    /\ arg.response.pid = 30
    /\ arg.response.data_len = 7
    /\ ret.r = OBD_ERROR_UNKNOWN_PID
    /\ ret.out = Unset

\* C17: for a pid of the table decode returns ParseFailed exactly when
\* data_len is below the minimum (4 for 0x01, 2 for 0x0C, 0x10, 0x1F, else
\* 1) and otherwise OK with the response's pid and the table's name and
\* unit in full (0x0C: "Engine RPM"/"rpm", 0x0D: "Vehicle Speed"/"km/h");
\* every name fits in 31 characters and every unit in 7.
SensorMinLength ==
    (pc = "decoded" /\ arg.response.pid \in TablePids) =>
        LET pid   == arg.response.pid
            short == arg.response.data_len < MinBytes(pid)
            row   == sensor_table[CHOOSE i \in 1..Len(sensor_table) :
                                     sensor_table[i].pid = pid]
        IN  /\ ret.r = OBD_ERROR_PARSE_FAILED <=> short
            /\ ~short =>
                  /\ ret.r = OBD_OK
                  /\ ret.out.pid = pid
                  /\ CStr(ret.out.name) = row.name
                  /\ CStr(ret.out.unit) = row.unit
                  /\ Len(row.name) <= 31 /\ Len(row.unit) <= 7
                  /\ pid = 12 => /\ CStr(ret.out.name) = Str(<<"E","n","g","i","n","e"," ","R","P","M">>)
                                 /\ CStr(ret.out.unit) = Str(<<"r","p","m">>)
                  /\ pid = 13 => /\ CStr(ret.out.name) = Str(<<"V","e","h","i","c","l","e"," ","S","p","e","e","d">>)
                                 /\ CStr(ret.out.unit) = Str(<<"k","m","/","h">>)

\* The status pid, which takes 4 data bytes, was refused with 3.
SensorMinLengthWitness ==
    /\ pc = "decoded"
    /\ arg.response.pid = 1
    /\ arg.response.data_len = 3
    /\ ret.r = OBD_ERROR_PARSE_FAILED

(***************************************************************************)
(* obd_sensor_decode on every first data byte of every table pid.          *)
(***************************************************************************)

SecondBytes == {0, 37, 248, 255}

\* data[0] = A, data[1] = B and the five bytes after them all c.
DataOf(A, B, c) == <<A, B, c, c, c, c, c>>

\* Every pid of the table with every first byte and sampled second bytes;
\* for the air flow formula every pair of bytes.
InitSensorValue ==
    /\ pc = "value"
    /\ \/ \E i \in 1..SENSOR_TABLE_SIZE, A \in 0..255, B \in SecondBytes, c \in {0, 255} :
             arg = [response |-> [mode |-> 65, pid |-> sensor_table[i].pid,
                                  data |-> DataOf(A, B, c),
                                  data_len |-> IF c = 0 THEN 4 ELSE OBD_MAX_DATA_BYTES]]
       \/ \E A \in 0..255, B \in 0..255 :
             arg = [response |-> [mode |-> 65, pid |-> 16,
                                  data |-> DataOf(A, B, 0), data_len |-> 4]]
    /\ ret = [r |-> OBD_OK, out |-> Unset]

SensorDecodeValue ==
    /\ pc = "value"
    /\ ret' = obd_sensor_decode(arg.response)
    /\ pc' = "decoded"
    /\ UNCHANGED arg

NextSensorValue == SensorDecodeValue

SpecSensorValue == InitSensorValue /\ [][NextSensorValue]_vars

\* The rational <<p, q>> = p / q that the formula of a pid gives for the
\* data bytes A and B.
FormulaRational(pid, A, B) ==
    CASE pid \in {4, 17}  -> <<A * 100, 255>>
      [] pid \in {5, 15}  -> <<A - 40, 1>>
      [] pid \in {6, 7}   -> <<(A - 128) * 100, 128>>
      [] pid = 10         -> <<A * 3, 1>>
      [] pid \in {11, 13} -> <<A, 1>>
      [] pid = 12         -> <<A * 256 + B, 4>>
      [] pid = 14         -> <<A - 128, 2>>
      [] pid = 16         -> <<A * 256 + B, 100>>
      [] pid = 20         -> <<A, 200>>
      [] pid = 31         -> <<A * 256 + B, 1>>
      [] pid = 1          -> <<A % 128, 1>>

\* The float v is the rational p / q exactly: with p = mp * 2^ep and
\* q = mq * 2^eq (mp, mq odd), v is (mp / mq) * 2^(ep - eq) and mq divides mp.
RatEqual(v, p, q) ==
    IF p = 0 THEN v.m = 0
    ELSE LET P == FloatNorm(p, 0)
             Q == FloatNorm(q, 0)
         IN  /\ Abs(P.m) % Q.m = 0
             /\ v.m = (IF p < 0 THEN 0 - 1 ELSE 1) * (Abs(P.m) \div Q.m)
             /\ v.e = P.e - Q.e

\* v = [m, e] written with a significand of exactly 24 bits, [M, E].
RECURSIVE Widen(_, _)
Widen(M, E) == IF M >= 8388608 THEN [M |-> M, E |-> E] ELSE Widen(2 * M, E - 1)

\* The float v lies within half a unit in its last place of p / q, for
\* 0 < p < 2^16 and 0 < q < 2^8: |M * q - p * 2^k| * 2 <= q where v is
\* M * 2^(-k).  The products are taken in two parts of 12 bits so that none
\* passes 2^31.
NearestTo(v, p, q) ==
    IF v.m <= 0 THEN FALSE
    ELSE LET w == Widen(v.m, v.e)
             k == 0 - w.E
         IN  IF k < 0 \/ k > 40 THEN FALSE
             ELSE IF k < 12
             THEN q <= 16 /\ Abs(w.M * q - p * Pow2(k)) * 2 <= q
             ELSE /\ Pow2(k - 12) <= 1073741824 \div p
                  /\ LET T == (w.M \div 4096) * q - p * Pow2(k - 12)
                     IN  /\ Abs(T) <= 512
                         /\ Abs(T * 4096 + (w.M % 4096) * q) * 2 <= q

\* The call has returned a value for the data bytes A and B.
Valued == pc = "decoded" /\ ret.r = OBD_OK

\* C18, as stated: the value is the formula's rational exactly, for every
\* pid.
SensorFormulasExact ==
    pc = "decoded" =>
        LET x == FormulaRational(arg.response.pid, arg.response.data[1],
                                 arg.response.data[2])
        IN  ret.r = OBD_OK /\ RatEqual(ret.out.value, x[1], x[2])

\* C18, amended: the value is the formula's rational exactly for pids 0x01,
\* 0x05, 0x06, 0x07, 0x0A, 0x0B, 0x0C, 0x0D, 0x0E, 0x0F, 0x1F, and for 0x04,
\* 0x11, 0x10, 0x14 it is the float nearest to the rational; only data[0]
\* and, for two-byte formulas, data[1] are read; "41 0C 1A F8" gives 1726.
SensorFormulasRounded ==
    pc = "decoded" =>
        LET pid == arg.response.pid
            A   == arg.response.data[1]
            B   == arg.response.data[2]
            x   == FormulaRational(pid, A, B)
            v   == ret.out.value
        IN  /\ ret.r = OBD_OK
            /\ pid \notin {4, 17, 16, 20} => RatEqual(v, x[1], x[2])
            /\ pid \in {4, 17, 16, 20} =>
                  IF x[1] = 0 THEN v.m = 0 ELSE NearestTo(v, x[1], x[2])
            /\ (pid = 12 /\ A = 26 /\ B = 248) => v = FloatNorm(1726, 0)

\* A throttle byte whose percentage no float holds was decoded.
SensorFormulasRoundedWitness ==
    /\ Valued
    /\ arg.response.pid = 17
    /\ arg.response.data[1] = 1
    /\ ~RatEqual(ret.out.value, 100, 255)
    /\ NearestTo(ret.out.value, 100, 255)

(***************************************************************************)
(* vin.c: the VIN reassembler.                                            *)
(***************************************************************************)

OBD_VIN_LENGTH == 17

\* sizeof(line_bytes): the bytes one line may decode to.
VinLineBytes == 16

\* Faulty variant: the data are taken from the sequence-number byte on.
vin_append_data_from_seq(vin, line_bytes, line_byte_count) ==
    Take(vin \o SelectSeq(SubSeq(line_bytes, 3, line_byte_count), LAMBDA b : b # 0),
         OBD_VIN_LENGTH)

\* The for loop over one accepted line: the bytes from index 3 on are
\* appended, 0x00 bytes passed over, until the VIN holds 17 characters.
vin_append_data(vin, line_bytes, line_byte_count) ==
    Take(vin \o SelectSeq(SubSeq(line_bytes, 4, line_byte_count), LAMBDA b : b # 0),
         OBD_VIN_LENGTH)

\* One iteration of the line loop of obd_vin_parse_response.  st.p is the
\* read position, st.vin the characters stored so far (vin_pos = Len(st.vin));
\* st.done is TRUE once the loop has been left.
vin_line_step(response, st) ==
    IF st.done THEN st
    ELSE IF At(response, st.p) = 0 \/ Len(st.vin) >= OBD_VIN_LENGTH
    THEN [st EXCEPT !.done = TRUE]
    ELSE LET line_start == skip_chars(response, st.p, {Ch("\r"), Ch("\n")}) IN
         IF At(response, line_start) = 0 THEN [st EXCEPT !.p = line_start, !.done = TRUE]
         ELSE LET p        == scan_to(response, line_start, {0, Ch("\r"), Ch("\n")})
                  line_len == IF p - line_start >= OBD_MAX_RESPONSE_LEN
                              THEN OBD_MAX_RESPONSE_LEN - 1 ELSE p - line_start
                  line_hex == SubSeq(response, line_start + 1, line_start + line_len)
                  conv     == obd_hex_to_bytes(line_hex, VinLineBytes)
              IN  IF conv.r # OBD_OK THEN [st EXCEPT !.p = p]
                  ELSE IF conv.out_len < 4 \/ conv.out[1] # 73 \/ conv.out[2] # 2
                  THEN [st EXCEPT !.p = p]
                  ELSE [st EXCEPT !.p = p,
                                  !.vin = vin_append_data(st.vin, conv.out, conv.out_len)]

\* k iterations of the line loop.
RECURSIVE vin_line_run(_, _, _)
vin_line_run(response, st, k) ==
    IF k = 0 THEN st
    ELSE IF k = 1 THEN vin_line_step(response, st)
    ELSE LET half == vin_line_run(response, st, k \div 2)
         IN  IF half.done THEN half
             ELSE vin_line_run(response, half, k - k \div 2)

\* obd_vin_parse_response(response, vin, vin_size).  vin_null: the vin
\* pointer is NULL.  written is FALSE when the buffer was not touched;
\* otherwise vin is the C string left in it.  Every iteration that does not
\* leave the loop moves the read position on, so strlen(response) + 1
\* iterations are enough.
obd_vin_parse_response(response, vin_null, vin_size) ==
    IF response = NULL \/ vin_null \/ vin_size = 0
    THEN [r |-> OBD_ERROR_INVALID_ARG, written |-> FALSE, vin |-> <<>>]
    ELSE IF vin_size < OBD_VIN_LENGTH + 1
    THEN [r |-> OBD_ERROR_BUFFER_TOO_SMALL, written |-> FALSE, vin |-> <<>>]
    ELSE LET st == vin_line_run(response, [p |-> 0, vin |-> <<>>, done |-> FALSE],
                                Len(response) + 1)
         IN  [r       |-> IF Len(st.vin) # OBD_VIN_LENGTH
                          THEN OBD_ERROR_PARSE_FAILED ELSE OBD_OK,
              written |-> TRUE,
              vin     |-> st.vin]

(***************************************************************************)
(* The VIN reassembler under test: one call on one transcript.             *)
(***************************************************************************)

\* Most lines of a transcript built from the line pool.
MaxVinLines == 4

TEST_EXPECTED_VIN ==
    Str(<<"W","B","A","3","B","5","F","K","7","F","N","1","2","3","4","5","6">>)

\* The five frames of the canonical transcript.
VinFrames ==
    << HexText(<<73, 2, 1, 87, 66, 65, 51>>),
       HexText(<<73, 2, 2, 66, 53, 70, 75>>),
       HexText(<<73, 2, 3, 55, 70, 78, 49>>),
       HexText(<<73, 2, 4, 50, 51, 52, 53>>),
       HexText(<<73, 2, 5, 54, 0, 0, 0>>) >>

TEST_CLEAN_VIN_MULTILINE == JoinCR(VinFrames)

\* A frame of exactly sizeof(line_bytes) bytes, with 0x00 bytes among its data.
VinFrame16 == HexText(<<73, 2, 2, 0, 51, 66, 53, 0, 70, 75, 55, 70, 78, 49, 50, 51>>)

\* The whole VIN in one frame of 20 bytes.
VinFrame20 == HexText(<<73, 2, 1>> \o TEST_EXPECTED_VIN)

\* Lines a transcript is built from: frames, and lines that are no frames
\* (malformed hex, another header, fewer than 4 bytes).
VinLinePool ==
    { VinFrames[1], VinFrames[5], VinFrame16, VinFrame20,
      Str(<<"4","9"," ","0","2"," ","0","1"," ","5","7"," ","Z","Z">>),
      HexText(<<65, 12, 26, 248>>),
      HexText(<<73, 2, 1>>),
      HexText(<<73, 3, 1, 87, 66>>) }

\* A frame followed, on the same line, by blanks and then by no hex digit;
\* the line is longer than the line buffer.
VinOverlongLine ==
    VinFrames[1] \o [i \in 1..(OBD_MAX_RESPONSE_LEN - 1 - Len(VinFrames[1])) |-> Ch(" ")]
        \o Str(<<"Z","Z">>)

\* The lines joined with the separator sep, which also ends the transcript.
RECURSIVE JoinWith(_, _)
JoinWith(lines, sep) ==
    IF lines = <<>> THEN <<>> ELSE lines[1] \o sep \o JoinWith(Tail(lines), sep)

VinSeparators == {Str(<<"\r">>), Str(<<"\r","\n">>)}

VinSizes == {0, 1, 5, 17, 18, 19, 32}

InitVin ==
    /\ pc = "parse_vin"
    /\ ret = [r |-> OBD_OK, written |-> FALSE, vin |-> <<>>]
    /\ \/ \E n \in 0..MaxVinLines : \E ls \in [1..n -> VinLinePool] :
          \E sep \in VinSeparators :
             arg = [response |-> JoinWith(ls, sep), vin_null |-> FALSE,
                    vin_size |-> OBD_VIN_LENGTH + 1]
       \/ \E t \in {TEST_CLEAN_VIN_MULTILINE, VinFrames[1], VinFrame20, NULL,
                    VinOverlongLine,
                    VinOverlongLine \o Str(<<"\r">>) \o JoinCR(Tail(VinFrames))} :
          \E nul \in BOOLEAN : \E size \in VinSizes :
             arg = [response |-> t, vin_null |-> nul, vin_size |-> size]

VinParseResponse ==
    /\ pc = "parse_vin"
    /\ ret' = obd_vin_parse_response(arg.response, arg.vin_null, arg.vin_size)
    /\ pc' = "done"
    /\ UNCHANGED arg

NextVin == VinParseResponse

SpecVin == InitVin /\ [][NextVin]_vars

\* The call was made with valid pointers.
VinCalled == pc = "done" /\ arg.response # NULL /\ ~arg.vin_null

\* The lines of a transcript: its non-empty segments between CR and LF.
VinLines(response) == SelectSeq(SplitLines(response), LAMBDA l : l # <<>>)

\* A line qualifies when it decodes to at least 4 bytes that begin 0x49 0x02.
Qualifies(line) ==
    /\ IsValidHex(line)
    /\ Decoded(line).out_len >= 4
    /\ Decoded(line).out[1] = 73
    /\ Decoded(line).out[2] = 2

\* The non-zero data bytes of a qualifying line: those after the sequence number.
LineData(line) ==
    SelectSeq(SubSeq(Decoded(line).out, 4, Decoded(line).out_len), LAMBDA b : b # 0)

\* The non-zero data bytes the qualifying lines supply, in transcript order.
VinData(response) ==
    LET qs == SelectSeq(VinLines(response), Qualifies)
    IN  Concat([i \in 1..Len(qs) |-> LineData(qs[i])])

\* C19: with a buffer of at least 18 bytes the call returns OK exactly when
\* the qualifying lines supply at least 17 non-zero data bytes, the output
\* then being the first 17 of them; with fewer it returns ParseFailed.  The
\* canonical transcript gives "WBA3B5FK7FN123456", its first line alone
\* ParseFailed, and vin_size < 18 gives BufferTooSmall.
VinResult ==
    VinCalled =>
        /\ arg.vin_size < OBD_VIN_LENGTH + 1 => ret.r = OBD_ERROR_BUFFER_TOO_SMALL
        /\ arg.vin_size >= OBD_VIN_LENGTH + 1 =>
            /\ ret.r = OBD_OK <=> Len(VinData(arg.response)) >= OBD_VIN_LENGTH
            /\ ret.r = OBD_OK => ret.vin = Take(VinData(arg.response), OBD_VIN_LENGTH)
            /\ ret.r # OBD_OK => ret.r = OBD_ERROR_PARSE_FAILED
            /\ arg.response = TEST_CLEAN_VIN_MULTILINE =>
                   ret.r = OBD_OK /\ ret.vin = TEST_EXPECTED_VIN
            /\ arg.response = VinFrames[1] => ret.r = OBD_ERROR_PARSE_FAILED

\* C20: the characters stored are data of the qualifying lines and of no
\* other line, whatever the number of bytes in a line, and the result is the
\* result for the transcript without its non-qualifying lines.
VinQualification ==
    (VinCalled /\ arg.vin_size >= OBD_VIN_LENGTH + 1) =>
        /\ ret.vin = Take(VinData(arg.response), OBD_VIN_LENGTH)
        /\ ret = obd_vin_parse_response(
                     JoinCR(SelectSeq(VinLines(arg.response), Qualifies)),
                     FALSE, arg.vin_size)

(***************************************************************************)
(* The VIN reassembler called on a transcript of frames, on the same       *)
(* frames with other sequence numbers, and on the frames with two of them  *)
(* exchanged.                                                              *)
(***************************************************************************)

\* Most frames of a transcript.
MaxOrderFrames == 3

\* Data bytes a frame may carry: 4, 13 and 17 characters, and a frame with
\* 0x00 bytes among its data.
VinChunks ==
    { <<87, 66, 65, 51>>,
      <<0, 49, 50, 0, 51>>,
      <<66, 53, 70, 75, 55, 70, 78, 49, 50, 51, 52, 53, 54>>,
      TEST_EXPECTED_VIN }

\* Ways of numbering the frames anew: position k gets scheme[k].
RenumberSchemes ==
    { <<0, 0, 0, 0>>, <<4, 3, 2, 1>>, <<73, 2, 0, 255>> }

\* The line of a frame: 49 02, its sequence number, its data.
FrameText(seqno, data) == HexText(<<73, 2, seqno>> \o data)

\* The transcript of the frames, frame k numbered num[k].
FramesText(frames, num) ==
    JoinWith([k \in 1..Len(frames) |-> FrameText(num[k], frames[k])], Str(<<"\r">>))

\* frames with the frames at positions i and j exchanged.
SwapFrames(frames, i, j) ==
    [k \in 1..Len(frames) |-> IF k = i THEN frames[j] ELSE IF k = j THEN frames[i]
                              ELSE frames[k]]

NoVin == [r |-> OBD_OK, written |-> FALSE, vin |-> <<>>]

InitVinOrder ==
    /\ pc = "frames"
    /\ ret = [orig |-> NoVin, renum |-> NoVin, swapped |-> NoVin]
    /\ \E n \in 1..MaxOrderFrames : \E fs \in [1..n -> VinChunks] :
       \E scheme \in RenumberSchemes : \E i \in 1..n : \E j \in i..n :
          arg = [frames |-> fs, scheme |-> scheme, i |-> i, j |-> j]

\* The call on the frames numbered 1, 2, 3, ...
VinParseFrames ==
    /\ pc = "frames"
    /\ ret' = [ret EXCEPT !.orig =
                  obd_vin_parse_response(
                      FramesText(arg.frames, [k \in 1..Len(arg.frames) |-> k]),
                      FALSE, OBD_VIN_LENGTH + 1)]
    /\ pc' = "parsed"
    /\ UNCHANGED arg

\* The call on the same frames numbered by the scheme.
VinParseRenumbered ==
    /\ pc = "parsed"
    /\ ret' = [ret EXCEPT !.renum =
                  obd_vin_parse_response(FramesText(arg.frames, arg.scheme),
                                         FALSE, OBD_VIN_LENGTH + 1)]
    /\ pc' = "renumbered"
    /\ UNCHANGED arg

\* The call on the frames with two exchanged, each keeping its number.
VinParseSwapped ==
    /\ pc = "renumbered"
    /\ ret' = [ret EXCEPT !.swapped =
                  LET num == SwapFrames([k \in 1..Len(arg.frames) |-> k], arg.i, arg.j)
                  IN  obd_vin_parse_response(
                          FramesText(SwapFrames(arg.frames, arg.i, arg.j), num),
                          FALSE, OBD_VIN_LENGTH + 1)]
    /\ pc' = "swapped"
    /\ UNCHANGED arg

NextVinOrder == VinParseFrames \/ VinParseRenumbered \/ VinParseSwapped

SpecVinOrder == InitVinOrder /\ [][NextVinOrder]_vars

\* The characters a frame gives when it is the whole transcript.
FrameChars(data) ==
    obd_vin_parse_response(FrameText(1, data), FALSE, OBD_VIN_LENGTH + 1).vin

\* The characters of the frames, in the order of the frames.
CharsInOrder(frames) == Concat([k \in 1..Len(frames) |-> FrameChars(frames[k])])

\* C21: other sequence numbers leave the outcome and the VIN unchanged; the
\* VIN is made of the characters of the frames in transcript order, so with
\* two frames exchanged their characters are exchanged in the VIN; a frame
\* that fits the line array gives its non-zero data bytes.
VinFrameOrder ==
    pc = "swapped" =>
        /\ ret.renum = ret.orig
        /\ ret.orig.vin = Take(CharsInOrder(arg.frames), OBD_VIN_LENGTH)
        /\ ret.swapped.vin =
               Take(CharsInOrder(SwapFrames(arg.frames, arg.i, arg.j)), OBD_VIN_LENGTH)
        /\ \A k \in 1..Len(arg.frames) :
               Len(arg.frames[k]) + 3 <= VinLineBytes =>
                   FrameChars(arg.frames[k]) =
                       SelectSeq(arg.frames[k], LAMBDA b : b # 0)

\* Two frames with different characters were exchanged and renumbered
\* backwards: the VIN is complete either way, but not the same.
VinFrameOrderWitness ==
    /\ pc = "swapped"
    /\ arg.i # arg.j
    /\ arg.scheme = <<4, 3, 2, 1>>
    /\ ret.orig.r = OBD_OK
    /\ ret.swapped.r = OBD_OK
    /\ ret.swapped.vin # ret.orig.vin

(***************************************************************************)
(* The hex decoder called on arbitrary text, and the encoder called on     *)
(* what it decoded (tests/test_hex_utils.c, test_error_cases).             *)
(***************************************************************************)

\* Longest text decoded.
MaxHexLen == 5

\* A digit, a small and a capital letter digit, a letter that is no digit,
\* and two kinds of whitespace.
HexTextChars == {Ch("1"), Ch("a"), Ch("F"), Ch("g"), Ch(" "), Ch("\n")}

\* The texts of the tests, with tabs and CRs among them.
HexTestTexts ==
    { Str(<<"4","1"," ","G","G">>), Str(<<"4","1"," ","0","C"," ","1","A"," ","F","8">>),
      Str(<<"4","1"," ","0">>), Str(<<"d","e"," ","a","d"," ","b","e"," ","e","f">>),
      Str(<<"\t","4","1","\r","\n","0","C","\t">>), Str(<<"4","\t","1">>) }

InitHexText ==
    /\ pc = "text"
    /\ ret = [dec |-> NoRet, enc |-> NoRet]
    /\ \E t \in SeqsUpTo(HexTextChars, MaxHexLen) \cup HexTestTexts :
       \E size \in {0, 1, 2, Len(t)} :
          arg = [hex |-> t, out_size |-> size]

\* The caller decodes the text into an array of out_size bytes.
HexDecodeText ==
    /\ pc = "text"
    /\ ret' = [ret EXCEPT !.dec = obd_hex_to_bytes(arg.hex, arg.out_size)]
    /\ pc' = "decoded"
    /\ UNCHANGED arg

\* Capacities of the text buffer for n bytes: the required 3n, one more,
\* one and two less.
EncodeSizes(n) == {size \in (3 * n - 2)..(3 * n + 1) : size >= 0}

\* The caller encodes the decoded bytes into a text buffer of size cells.
HexEncodeDecoded ==
    /\ pc = "decoded"
    /\ ret.dec.r = OBD_OK
    /\ \E size \in EncodeSizes(ret.dec.out_len) :
          ret' = [ret EXCEPT !.enc =
                     obd_bytes_to_hex(ret.dec.out, ret.dec.out_len, size)
                         @@ [size |-> size]]
    /\ pc' = "encoded"
    /\ UNCHANGED arg

NextHexText == HexDecodeText \/ HexEncodeDecoded

SpecHexText == InitHexText /\ [][NextHexText]_vars

\* The maximal runs of s without a character of seps, in order.
RECURSIVE SplitOn(_, _)
SplitOn(s, seps) ==
    LET brk == {i \in 1..Len(s) : s[i] \in seps} IN
    IF brk = {} THEN (IF s = <<>> THEN <<>> ELSE <<s>>)
    ELSE LET i == CHOOSE k \in brk : \A m \in brk : k <= m
             rest == SplitOn(SubSeq(s, i + 1, Len(s)), seps)
         IN  IF i = 1 THEN rest ELSE <<SubSeq(s, 1, i - 1)>> \o rest

Whitespace == {Ch(" "), Ch("\t"), Ch("\r"), Ch("\n")}

LowerHex == Str(<<"0","1","2","3","4","5","6","7","8","9","a","b","c","d","e","f">>)

\* The value of a hex digit, either case.
HexValue(c) == CHOOSE v \in 0..15 : c = UpperHex[v + 1] \/ c = LowerHex[v + 1]

\* A run of digit pairs: an even number of hex digits.
IsPairRun(w) == Len(w) % 2 = 0 /\ \A i \in 1..Len(w) : IsHexDigit(w[i])

\* A sequence of two-digit pairs with whitespace before, between and after.
IsPairText(text) ==
    \A i \in 1..Len(SplitOn(text, Whitespace)) : IsPairRun(SplitOn(text, Whitespace)[i])

\* The bytes of a sequence of pairs, high nibble first.
PairBytes(text) ==
    LET ds == SelectSeq(text, LAMBDA c : c \notin Whitespace)
    IN  [k \in 1..(Len(ds) \div 2) |-> 16 * HexValue(ds[2 * k - 1]) + HexValue(ds[2 * k])]

\* C22: with enough capacity the call returns OK exactly for a sequence of
\* digit pairs with whitespace around them, giving one byte per pair in
\* order, and InvalidHex for every other text; a sequence of more pairs than
\* out_size returns BufferTooSmall; no cell at or past out_size is written.
HexAcceptance ==
    pc \in {"decoded", "encoded"} =>
        /\ Len(ret.dec.out) <= arg.out_size
        /\ ret.dec.r \in {OBD_OK, OBD_ERROR_INVALID_HEX, OBD_ERROR_BUFFER_TOO_SMALL}
        /\ arg.out_size >= Len(arg.hex) \div 2 =>
            /\ ret.dec.r = OBD_OK <=> IsPairText(arg.hex)
            /\ ret.dec.r # OBD_OK => ret.dec.r = OBD_ERROR_INVALID_HEX
        /\ ret.dec.r = OBD_OK =>
               ret.dec.out = PairBytes(arg.hex) /\ ret.dec.out_len = Len(ret.dec.out)
        /\ (IsPairText(arg.hex) /\ Len(PairBytes(arg.hex)) > arg.out_size) =>
               ret.dec.r = OBD_ERROR_BUFFER_TOO_SMALL

\* A text of two pairs, with digits of both cases and whitespace between
\* the pairs, was decoded.
HexAcceptanceWitness ==
    /\ pc = "decoded"
    /\ arg.hex = Str(<<"a","F","\n","1","1">>)
    /\ ret.dec.r = OBD_OK
    /\ ret.dec.out = <<175, 17>>

\* Text in the form the encoder writes: pairs of digits and capital letter
\* digits, one space between consecutive pairs, nothing before or after.
IsCanonicalHex(s) ==
    s = <<>> \/
    (/\ Len(s) % 3 = 2
     /\ \A i \in 1..Len(s) :
           IF i % 3 = 0 THEN s[i] = Ch(" ")
           ELSE \E v \in 1..16 : s[i] = UpperHex[v])

\* The encoder's result for n >= 1 bytes, and the round trip of canonical text.
HexEncodeSome ==
    LET n == ret.dec.out_len
        B == ret.dec.out
        out == ret.enc.out
    IN  /\ (n >= 1 /\ ret.enc.size >= 3 * n) =>
              /\ ret.enc.r = OBD_OK
              /\ Len(out) = 3 * n
              /\ out[3 * n] = 0
              /\ \A k \in 1..n :
                    /\ out[3 * k - 2] = UpperHex[(B[k] \div 16) + 1]
                    /\ out[3 * k - 1] = UpperHex[(B[k] % 16) + 1]
                    /\ k < n => out[3 * k] = Ch(" ")
        /\ (n >= 1 /\ ret.enc.size < 3 * n) =>
              ret.enc.r = OBD_ERROR_BUFFER_TOO_SMALL /\ out = <<>>
        /\ (IsCanonicalHex(arg.hex) /\ ret.enc.r = OBD_OK) => CStr(out) = arg.hex

\* C23 as stated: n >= 1 bytes in a buffer of at least 3n cells are written
\* as 3n-1 characters and a NUL, two capital hex digits per byte, one space
\* between bytes; a smaller buffer gives BufferTooSmall and is not written;
\* no bytes give OK and the empty string; canonical text decoded and encoded
\* again is the same text.
HexEncodeFormat ==
    pc = "encoded" =>
        /\ HexEncodeSome
        /\ ret.dec.out_len = 0 => ret.enc.r = OBD_OK /\ ret.enc.out = <<0>>

\* C23, amended: as stated, but for no bytes the empty string is written
\* only when the buffer has a cell for it; a buffer of no cells is left as
\* it was, and the call still returns OK.
HexEncodeFormatSized ==
    pc = "encoded" =>
        /\ HexEncodeSome
        /\ ret.dec.out_len = 0 =>
              /\ ret.enc.r = OBD_OK
              /\ ret.enc.out = IF ret.enc.size >= 1 THEN <<0>> ELSE <<>>

\* Canonical text of two bytes was decoded and encoded again into a buffer
\* of exactly 3n cells.
HexEncodeFormatSizedWitness ==
    /\ pc = "encoded"
    /\ arg.hex = Str(<<"1","F"," ","F","1">>)
    /\ ret.enc.size = 6
    /\ ret.enc.r = OBD_OK
    /\ CStr(ret.enc.out) = arg.hex

(***************************************************************************)
(* hex_utils.c: obd_strip_whitespace, and a caller that strips twice       *)
(* (tests/test_hex_utils.c, test_strip_whitespace).                        *)
(***************************************************************************)

\* One iteration of the for loop of obd_strip_whitespace.  st.buf is the
\* caller's buffer, terminating NUL included; st.read and st.write are the
\* two indices; st.done is TRUE once the loop has been left and the
\* terminator written.
strip_step(st) ==
    IF st.done THEN st
    ELSE IF st.buf[st.read + 1] = 0
    THEN [st EXCEPT !.buf[st.write + 1] = 0, !.done = TRUE]
    ELSE IF ~is_whitespace(st.buf[st.read + 1])
    THEN [st EXCEPT !.buf[st.write + 1] = st.buf[st.read + 1],
                    !.write = st.write + 1, !.read = st.read + 1]
    ELSE [st EXCEPT !.read = st.read + 1]

\* k iterations of the loop.
RECURSIVE strip_run(_, _)
strip_run(st, k) ==
    IF k = 0 THEN st
    ELSE IF k = 1 THEN strip_step(st)
    ELSE LET half == strip_run(st, k \div 2)
         IN  IF half.done THEN half ELSE strip_run(half, k - k \div 2)

\* obd_strip_whitespace(str): the string left in the buffer.  A NULL
\* pointer is left alone.  The loop reads each character once, so
\* strlen(str) + 1 iterations are enough.
obd_strip_whitespace(str) ==
    IF str = NULL THEN NULL
    ELSE CStr(strip_run([buf |-> Append(str, 0), read |-> 0, write |-> 0,
                         done |-> FALSE], Len(str) + 1).buf)

\* Longest string stripped.
MaxStripLen == 5

\* The four whitespace characters and two others.
StripChars == {Ch(" "), Ch("\t"), Ch("\r"), Ch("\n"), Ch("A"), Ch(">")}

InitStrip ==
    /\ pc = "strip"
    /\ ret = [once |-> <<>>, twice |-> <<>>]
    /\ \E s \in SeqsUpTo(StripChars, MaxStripLen)
               \cup {NULL, Str(<<"4","1"," ","0","C","\r","\n">>), Str(<<"A","B","C","D">>)} :
          arg = [str |-> s]

\* The caller strips its buffer.
StripWhitespace ==
    /\ pc = "strip"
    /\ ret' = [ret EXCEPT !.once = obd_strip_whitespace(arg.str)]
    /\ pc' = "stripped"
    /\ UNCHANGED arg

\* The caller strips the same buffer again.
StripAgain ==
    /\ pc = "stripped"
    /\ ret' = [ret EXCEPT !.twice = obd_strip_whitespace(ret.once)]
    /\ pc' = "stripped_twice"
    /\ UNCHANGED arg

NextStrip == StripWhitespace \/ StripAgain

SpecStrip == InitStrip /\ [][NextStrip]_vars

\* C24: the result is the string without its spaces, tabs, CRs and LFs, the
\* other characters in their order; it is no longer than the string; and
\* stripping it again leaves it as it is.
StripIdempotent ==
    (pc \in {"stripped", "stripped_twice"} /\ arg.str # NULL) =>
        /\ ret.once = SelectSeq(arg.str, LAMBDA c : c \notin Whitespace)
        /\ Len(ret.once) <= Len(arg.str)
        /\ pc = "stripped_twice" => ret.twice = ret.once

\* A string of all four kinds of whitespace and one other character was
\* stripped twice.
StripIdempotentWitness ==
    /\ pc = "stripped_twice"
    /\ arg.str # NULL
    /\ \A w \in Whitespace : \E i \in 1..Len(arg.str) : arg.str[i] = w
    /\ ret.once = Str(<<"A">>)
    /\ ret.twice = ret.once

(***************************************************************************)
(* pid.c, dtc.c, vin.c: the command builders.                              *)
(***************************************************************************)

\* Faulty variant: the value is written without the leading zero.
fmt_02X_unpadded(v) ==
    IF v < 16 THEN <<hex_chars(v % 16)>>
    ELSE <<hex_chars((v \div 16) % 16), hex_chars(v % 16)>>

\* What the conversion %02X writes for a uint8_t: two capital hex digits.
fmt_02X(v) == <<hex_chars((v \div 16) % 16), hex_chars(v % 16)>>

\* snprintf(out, out_size, ...) of the formatted text, out_size >= 1: n is
\* the length of the text, out the cells written (at most out_size - 1
\* characters and the NUL).
snprintf(out_size, text) ==
    [n |-> Len(text), out |-> Append(Take(text, out_size - 1), 0)]

\* obd_pid_build_request(mode, pid, out, out_size).  out_null: the out
\* pointer is NULL.  out: the cells written.
obd_pid_build_request(mode, pid, out_null, out_size) ==
    IF out_null \/ out_size = 0 THEN [r |-> OBD_ERROR_INVALID_ARG, out |-> <<>>]
    ELSE IF out_size < 6 THEN [r |-> OBD_ERROR_BUFFER_TOO_SMALL, out |-> <<>>]
    ELSE LET p == snprintf(out_size, fmt_02X(mode) \o fmt_02X(pid) \o <<Ch("\r")>>)
         IN  IF p.n >= out_size THEN [r |-> OBD_ERROR_BUFFER_TOO_SMALL, out |-> p.out]
             ELSE [r |-> OBD_OK, out |-> p.out]

\* obd_dtc_build_request(out, out_size).
obd_dtc_build_request(out_null, out_size) ==
    IF out_null \/ out_size = 0 THEN [r |-> OBD_ERROR_INVALID_ARG, out |-> <<>>]
    ELSE IF out_size < 4 THEN [r |-> OBD_ERROR_BUFFER_TOO_SMALL, out |-> <<>>]
    ELSE [r |-> OBD_OK, out |-> <<Ch("0"), Ch("3"), Ch("\r"), 0>>]

\* obd_vin_build_request(out, out_size).
obd_vin_build_request(out_null, out_size) ==
    IF out_null \/ out_size = 0 THEN [r |-> OBD_ERROR_INVALID_ARG, out |-> <<>>]
    ELSE IF out_size < 6 THEN [r |-> OBD_ERROR_BUFFER_TOO_SMALL, out |-> <<>>]
    ELSE [r |-> OBD_OK, out |-> <<Ch("0"), Ch("9"), Ch("0"), Ch("2"), Ch("\r"), 0>>]

(***************************************************************************)
(* The builders under test: one call of one builder                        *)
(* (tests/test_pid.c, test_build_request).                                 *)
(***************************************************************************)

\* Capacities of the command buffer, OBD_MAX_COMMAND_LEN among them.
BuildSizes == (0..7) \cup {16}

InitBuild ==
    /\ pc = "build"
    /\ ret = [r |-> OBD_OK, out |-> <<>>]
    /\ \/ \E mode \in 0..255, pid \in 0..255 :
             arg = [mode |-> mode, pid |-> pid, out_null |-> FALSE, out_size |-> 6]
       \/ \E mode \in {1, 2, 9, 171}, pid \in {0, 12, 13, 255}, nul \in BOOLEAN,
             size \in BuildSizes :
             arg = [mode |-> mode, pid |-> pid, out_null |-> nul, out_size |-> size]

PidBuildRequest ==
    /\ pc = "build"
    /\ ret' = obd_pid_build_request(arg.mode, arg.pid, arg.out_null, arg.out_size)
    /\ pc' = "built_pid"
    /\ UNCHANGED arg

DtcBuildRequest ==
    /\ pc = "build"
    /\ ret' = obd_dtc_build_request(arg.out_null, arg.out_size)
    /\ pc' = "built_dtc"
    /\ UNCHANGED arg

VinBuildRequest ==
    /\ pc = "build"
    /\ ret' = obd_vin_build_request(arg.out_null, arg.out_size)
    /\ pc' = "built_vin"
    /\ UNCHANGED arg

NextBuild == PidBuildRequest \/ DtcBuildRequest \/ VinBuildRequest

SpecBuild == InitBuild /\ [][NextBuild]_vars

\* A builder that needs min cells and writes text: its result for the
\* buffer of the call.
BuiltAs(min, text) ==
    IF arg.out_null \/ arg.out_size = 0
    THEN ret.r = OBD_ERROR_INVALID_ARG /\ ret.out = <<>>
    ELSE IF arg.out_size < min
    THEN ret.r = OBD_ERROR_BUFFER_TOO_SMALL /\ ret.out = <<>>
    ELSE ret.r = OBD_OK /\ ret.out = Append(text, 0)

\* C25: with out_size >= 6 the PID request is two capital hex digits of
\* mode, two of pid, CR and NUL; with out_size >= 4 the DTC request is
\* "03\r"; with out_size >= 6 the VIN request is "0902\r".  A NULL buffer
\* or out_size = 0 gives InvalidArg, a smaller non-zero out_size
\* BufferTooSmall, and nothing is written.
BuildersContract ==
    /\ pc = "built_pid" =>
          BuiltAs(6, << UpperHex[(arg.mode \div 16) + 1], UpperHex[(arg.mode % 16) + 1],
                        UpperHex[(arg.pid \div 16) + 1], UpperHex[(arg.pid % 16) + 1],
                        Ch("\r") >>)
    /\ pc = "built_dtc" => BuiltAs(4, Str(<<"0","3","\r">>))
    /\ pc = "built_vin" => BuiltAs(6, Str(<<"0","9","0","2","\r">>))

\* The request for mode 01, pid 0C was built in a buffer of exactly 6 cells.
BuildersContractWitness ==
    /\ pc = "built_pid"
    /\ arg.mode = 1 /\ arg.pid = 12 /\ arg.out_size = 6 /\ ~arg.out_null
    /\ ret.r = OBD_OK
    /\ CStr(ret.out) = Str(<<"0","1","0","C","\r">>)

(***************************************************************************)
(* The scanning loops, one iteration at a time.                            *)
(***************************************************************************)

\* One pass through the while loop of obd_elm327_clean_response, the three
\* positions of the pass given: line_start, where the CRs and LFs at the
\* read position end; pe, the end of the line; lp, the first character of
\* the line that is no space or tab.  st.p is the read position, st.out the
\* cells written so far (out_pos = Len(st.out)), st.found_data the flag;
\* st.done is TRUE once the function has returned st.r.
clean_pass(raw, out_size, st, line_start, pe, lp) ==
    IF st.done THEN st
    ELSE IF \/ At(raw, st.p) = 0
            \/ At(raw, line_start) = 0
            \/ At(raw, line_start) = Ch(">")
    THEN [st EXCEPT !.p = line_start, !.done = TRUE,
                    !.out = clean_finish(raw, st.out, st.found_data).out,
                    !.r = clean_finish(raw, st.out, st.found_data).r]
    ELSE IF lp >= pe THEN [st EXCEPT !.p = pe]
    ELSE IF obd_elm327_classify_response(
                SubSeq(raw, lp + 1,
                       lp + (IF pe - lp >= OBD_MAX_RESPONSE_LEN
                             THEN OBD_MAX_RESPONSE_LEN - 1 ELSE pe - lp)))
               # OBD_ELM_RESPONSE_DATA
    THEN [st EXCEPT !.p = pe]
    ELSE IF clean_line_skipped(raw, lp, pe) THEN [st EXCEPT !.p = pe]
    ELSE LET copied == clean_copy_line(st.out, out_size, st.found_data,
                                       SubSeq(raw, lp + 1, pe))
         IN  IF copied.full
             THEN [st EXCEPT !.p = pe, !.out = copied.out, !.done = TRUE,
                             !.r = OBD_ERROR_BUFFER_TOO_SMALL]
             ELSE [st EXCEPT !.p = pe, !.out = copied.out, !.found_data = TRUE]

\* The same pass, the positions found from the read position.
clean_step(raw, out_size, st) ==
    LET line_start == skip_chars(raw, st.p, {Ch("\r"), Ch("\n")})
        pe         == clean_line_end(raw, line_start)
        sp         == skip_chars(raw, line_start, {Ch(" "), Ch("\t")})
    IN  clean_pass(raw, out_size, st, line_start, pe, IF sp < pe THEN sp ELSE pe)

\* The locals of obd_elm327_clean_response before its loop.
CleanEntry == [p |-> 0, out |-> <<>>, found_data |-> FALSE, done |-> FALSE, r |-> OBD_OK]

\* Longest text of arbitrary characters given to the hex decoder.
MaxScanLen == 3

\* Most pieces of a transcript given to the cleaner, most lines of one
\* given to the VIN reassembler, most bytes after the header of a payload
\* given to the DTC parser.
MaxScanPieces == 3

ScanVinLines ==
    { VinFrames[1], <<>>, HexText(<<65, 12, 26, 248>>),
      Str(<<"4","9"," ","0","2"," ","0","1"," ","5","7"," ","Z","Z">>) }

ScanInputs ==
    {[fn |-> "hex", text |-> t, out_size |-> n] :
        t \in SeqsUpTo(HexTextChars, MaxScanLen) \cup HexTestTexts, n \in {1, 4}}
    \cup {[fn |-> "clean", text |-> Concat(ps), out_size |-> n] :
            ps \in SeqsUpTo(RawPieces, MaxScanPieces), n \in {4, 64}}
    \cup {[fn |-> "clean", text |-> t, out_size |-> 64] :
            t \in {TEST_RAW_RPM_RESPONSE, TEST_RAW_NO_DATA_RESPONSE,
                   TEST_RAW_RESET_RESPONSE}}
    \cup {[fn |-> "vin", text |-> JoinWith(ls, sep), out_size |-> OBD_VIN_LENGTH + 1] :
            ls \in SeqsUpTo(ScanVinLines, MaxScanPieces), sep \in VinSeparators}
    \cup {[fn |-> "vin", text |-> t, out_size |-> OBD_VIN_LENGTH + 1] :
            t \in {TEST_CLEAN_VIN_MULTILINE, VinFrame20 \o Str(<<"\r">>) \o VinFrames[1]}}
    \cup {[fn |-> "dtc", text |-> HexText(<<h>> \o body), out_size |-> DtcScratchBytes] :
            h \in {67, 65}, body \in SeqsUpTo(DtcBodyBytes, MaxScanPieces)}
    \cup {[fn |-> "dtc", text |-> t, out_size |-> DtcScratchBytes] :
            t \in {TEST_CLEAN_DTC_TWO_CODES, TEST_CLEAN_DTC_NO_CODES,
                   Str(<<"4","3"," ","0">>), Str(<<"Z","Z"," ","X","X">>)}}

\* The locals of obd_hex_to_bytes before its loop.
HexEntry == [i |-> 0, out |-> <<>>, done |-> FALSE, r |-> OBD_OK, out_len |-> -1]

InitScan ==
    /\ pc = "call"
    /\ ret = [r |-> OBD_OK]
    /\ arg \in ScanInputs

\* The code before the loop, the arguments being valid.  The hex decoder
\* starts at the first character, and so does the DTC parser, which has its
\* text decoded before anything else; the cleaner and the VIN reassembler
\* start their line loops.  ret.r is the value returned, once pc = "returned".
ScanEnter ==
    /\ pc = "call"
    /\ \/ /\ arg.fn = "hex"
          /\ ret' = [r |-> OBD_OK, hex |-> arg.text, size |-> arg.out_size,
                     conv |-> HexEntry]
          /\ pc' = "hex"
       \/ /\ arg.fn = "dtc"
          /\ ret' = [r |-> OBD_OK, hex |-> arg.text, size |-> DtcScratchBytes,
                     conv |-> HexEntry, i |-> 0, dtcs |-> <<>>]
          /\ pc' = "hex"
       \/ /\ arg.fn = "clean"
          /\ ret' = CleanEntry
          /\ pc' = "loop"
       \/ /\ arg.fn = "vin"
          /\ ret' = [r |-> OBD_OK, p |-> 0, vin |-> <<>>, hex |-> <<>>,
                     size |-> VinLineBytes, conv |-> HexEntry]
          /\ pc' = "loop"
    /\ UNCHANGED arg

\* One pass through the loop of obd_hex_to_bytes, on the text ret.hex: the
\* test and the body.  The function returns to its caller.
HexStep ==
    /\ pc = "hex"
    /\ \E conv \in {hex_to_bytes_step(ret.hex, ret.size, ret.conv)} :
          IF ~conv.done
          THEN ret' = [ret EXCEPT !.conv = conv] /\ pc' = "hex"
          ELSE IF arg.fn = "hex"
          THEN ret' = [ret EXCEPT !.conv = conv, !.r = conv.r] /\ pc' = "returned"
          ELSE ret' = [ret EXCEPT !.conv = conv] /\ pc' = "decoded"
    /\ UNCHANGED arg

\* One pass through the while loop of obd_elm327_clean_response.
CleanStep ==
    /\ pc = "loop" /\ arg.fn = "clean"
    /\ \E line_start \in {skip_chars(arg.text, ret.p, {Ch("\r"), Ch("\n")})} :
       \E pe \in {clean_line_end(arg.text, line_start)} :
       \E sp \in {skip_chars(arg.text, line_start, {Ch(" "), Ch("\t")})} :
       \E st \in {clean_pass(arg.text, arg.out_size, ret, line_start, pe,
                             IF sp < pe THEN sp ELSE pe)} :
          ret' = st /\ pc' = IF st.done THEN "returned" ELSE "loop"
    /\ UNCHANGED arg

\* The line loop of obd_vin_parse_response up to its call of
\* obd_hex_to_bytes: the test, the separators skipped, the line found and
\* copied to line_hex.
VinLine ==
    /\ pc = "loop" /\ arg.fn = "vin"
    /\ \E line_start \in {skip_chars(arg.text, ret.p, {Ch("\r"), Ch("\n")})} :
       \E p \in {scan_to(arg.text, line_start, {0, Ch("\r"), Ch("\n")})} :
          IF At(arg.text, ret.p) = 0 \/ Len(ret.vin) >= OBD_VIN_LENGTH
          THEN /\ ret' = [ret EXCEPT !.r = IF Len(ret.vin) # OBD_VIN_LENGTH
                                           THEN OBD_ERROR_PARSE_FAILED ELSE OBD_OK]
               /\ pc' = "returned"
          ELSE IF At(arg.text, line_start) = 0
          THEN /\ ret' = [ret EXCEPT !.p = line_start,
                                     !.r = IF Len(ret.vin) # OBD_VIN_LENGTH
                                           THEN OBD_ERROR_PARSE_FAILED ELSE OBD_OK]
               /\ pc' = "returned"
          ELSE /\ ret' = [ret EXCEPT
                            !.p = p,
                            !.hex = SubSeq(arg.text, line_start + 1,
                                           line_start
                                           + (IF p - line_start >= OBD_MAX_RESPONSE_LEN
                                              THEN OBD_MAX_RESPONSE_LEN - 1
                                              ELSE p - line_start)),
                            !.conv = HexEntry]
               /\ pc' = "hex"
    /\ UNCHANGED arg

\* The rest of the line loop: a line that did not decode, or is no frame,
\* is passed over; the data bytes of a frame are appended.
VinAppend ==
    /\ pc = "decoded" /\ arg.fn = "vin"
    /\ IF ret.conv.r # OBD_OK
       THEN UNCHANGED ret
       ELSE IF ret.conv.out_len < 4 \/ ret.conv.out[1] # 73 \/ ret.conv.out[2] # 2
       THEN UNCHANGED ret
       ELSE ret' = [ret EXCEPT !.vin = vin_append_data(ret.vin, ret.conv.out,
                                                       ret.conv.out_len)]
    /\ pc' = "loop"
    /\ UNCHANGED arg

\* obd_dtc_parse_response once its text is decoded: the length and header
\* tests, and i = 1.
DtcHeader ==
    /\ pc = "decoded" /\ arg.fn = "dtc"
    /\ IF ret.conv.r # OBD_OK
       THEN ret' = [ret EXCEPT !.r = ret.conv.r] /\ pc' = "returned"
       ELSE IF ret.conv.out_len < 1 \/ ret.conv.out[1] # 67
       THEN ret' = [ret EXCEPT !.r = OBD_ERROR_PARSE_FAILED] /\ pc' = "returned"
       ELSE ret' = [ret EXCEPT !.i = 1] /\ pc' = "loop"
    /\ UNCHANGED arg

\* One pass through the while loop of obd_dtc_parse_response.
DtcStep ==
    /\ pc = "loop" /\ arg.fn = "dtc"
    /\ IF ret.i + 1 < ret.conv.out_len /\ Len(ret.dtcs) < OBD_MAX_DTCS
       THEN \E st \in {dtc_step(ret.conv.out, ret.conv.out_len,
                                [i |-> ret.i, dtcs |-> ret.dtcs])} :
               ret' = [ret EXCEPT !.i = st.i, !.dtcs = st.dtcs] /\ pc' = "loop"
       ELSE ret' = [ret EXCEPT !.r = OBD_OK] /\ pc' = "returned"
    /\ UNCHANGED arg

NextScan ==
    ScanEnter \/ HexStep \/ CleanStep \/ VinLine \/ VinAppend \/ DtcHeader \/ DtcStep

SpecScan == InitScan /\ [][NextScan]_vars

\* A function that was called runs: its next step is taken.
SpecScanFair == SpecScan /\ WF_vars(NextScan)

\* The read position of a line loop or of the pair loop.
LoopPos == IF arg.fn = "dtc" THEN ret.i ELSE ret.p

\* The outcome of the same call made in one step.
CallOutcome ==
    CASE arg.fn = "hex" -> obd_hex_to_bytes(arg.text, arg.out_size).r
      [] arg.fn = "clean" -> obd_elm327_clean_response(arg.text, arg.out_size).r
      [] arg.fn = "vin" -> obd_vin_parse_response(arg.text, FALSE, arg.out_size).r
      [] arg.fn = "dtc" -> obd_dtc_parse_response(arg.text).r

\* C26: every pass through a scanning loop that does not leave the loop
\* moves its read position on by at least one, and never past the end of
\* what is read; every call returns, and with the outcome of the call.
ScanTermination ==
    /\ [][/\ (pc = "hex" /\ pc' = "hex") =>
                /\ ret'.conv.i >= ret.conv.i + 1
                /\ ret'.conv.i <= Len(ret.hex)
          /\ (pc = "loop" /\ pc' \in {"loop", "hex"}) =>
                /\ LoopPos' >= LoopPos + 1
                /\ LoopPos' <= (IF arg.fn = "dtc" THEN ret.conv.out_len
                                ELSE Len(arg.text))]_vars
    /\ [](pc = "returned" => ret.r = CallOutcome)
    /\ <>(pc = "returned")

\* The cleaner returned from a transcript with a skipped echo line, a blank
\* line and a line of blanks, having read all of it.
ScanTerminationWitness ==
    /\ pc = "returned"
    /\ arg.fn = "clean"
    /\ arg.text = Str(<<"0","1","0","C">>) \o Str(<<"\r">>) \o Str(<<" ","\t">>)
    /\ ret.p = Len(arg.text)


(***************************************************************************)
(* Concurrent callers: each thread makes one call on a buffer of its own;  *)
(* the buffers lie side by side in one memory.                             *)
(***************************************************************************)

\* The number of threads.
MaxThreads == 2

Threads == 1..MaxThreads

\* Cells after the last buffer that belong to no caller.
MemGuard == 2

\* The cell value of memory nobody has written.
Untouched == Ch("X")

\* The calls a thread makes: fn names the function, text is its input
\* string, size the number of cells of its buffer, pid the pid asked for.
ThreadCalls ==
    {[fn |-> "hex", text |-> Str(<<"4","1"," ","0","C">>), size |-> n, pid |-> 0] :
        n \in {1, 2}}
    \cup {[fn |-> "hex", text |-> Str(<<"1","A"," ","g">>), size |-> 2, pid |-> 0]}
    \cup {[fn |-> "clean", text |-> TEST_RAW_RPM_RESPONSE, size |-> n, pid |-> 0] :
            n \in {5, 12}}
    \cup {[fn |-> "clean", text |-> Str(<<"4","1","\r","4","2"," ","\r",">">>),
           size |-> 6, pid |-> 0],
          [fn |-> "clean", text |-> TEST_RAW_NO_DATA_RESPONSE, size |-> 5, pid |-> 0],
          [fn |-> "strip", text |-> Str(<<"4","1"," ","0","C","\r","\n">>),
           size |-> 8, pid |-> 0],
          [fn |-> "name", text |-> <<>>, size |-> 4, pid |-> 12],
          [fn |-> "name", text |-> <<>>, size |-> 1, pid |-> 255]}

\* What a caller's buffer holds before the call: the string to strip, or
\* nothing written yet.
EntryBuffer(call) ==
    IF call.fn = "strip" THEN Append(call.text, 0)
    ELSE [i \in 1..call.size |-> Untouched]

\* The locals of a function before its first loop pass.
EntryLocals(call) ==
    CASE call.fn = "hex"   -> [i |-> 0, o |-> 0, r |-> OBD_OK]
      [] call.fn = "clean" -> [p |-> 0, out_pos |-> 0, found_data |-> FALSE, r |-> OBD_OK]
      [] call.fn = "strip" -> [read |-> 0, write |-> 0, r |-> OBD_OK]
      [] call.fn = "name"  -> [r |-> OBD_OK]

\* The address before the first cell of the buffer of thread t.
RECURSIVE BufferBase(_, _)
BufferBase(calls, t) == IF t = 1 THEN 0 ELSE BufferBase(calls, t - 1) + calls[t - 1].size

\* The memory before the calls: the buffers one after the other, then the
\* guard cells.
RECURSIVE EntryMemory(_, _)
EntryMemory(calls, t) ==
    IF t > MaxThreads THEN [i \in 1..MemGuard |-> Untouched]
    ELSE EntryBuffer(calls[t]) \o EntryMemory(calls, t + 1)

\* The first n cells found at a buffer.
Buf(mem, base, n) == [i \in 1..n |-> mem[base + i]]

\* A function writes `cells` to the buffer at base, from its first cell on:
\* cell i goes to the address base + i, whosever cell that is.
Store(mem, base, cells) ==
    [a \in 1..Len(mem) |-> IF a - base \in 1..Len(cells) THEN cells[a - base] ELSE mem[a]]

InitThreads ==
    /\ arg \in [Threads -> ThreadCalls]
    /\ pc = [t \in Threads |-> "run"]
    /\ ret = [mem |-> EntryMemory(arg, 1), loc |-> [t \in Threads |-> EntryLocals(arg[t])]]

\* Thread t makes one pass through the loop of obd_hex_to_bytes.
ThreadHexStep(t) ==
    /\ pc[t] = "run" /\ arg[t].fn = "hex"
    /\ LET base == BufferBase(arg, t)
           l    == ret.loc[t]
           st   == hex_to_bytes_step(arg[t].text, arg[t].size,
                       [i |-> l.i, out |-> Buf(ret.mem, base, l.o), done |-> FALSE,
                        r |-> OBD_OK, out_len |-> -1])
       IN  /\ ret' = [mem |-> Store(ret.mem, base, st.out),
                      loc |-> [ret.loc EXCEPT ![t] = [i |-> st.i, o |-> Len(st.out),
                                                      r |-> st.r]]]
           /\ pc' = [pc EXCEPT ![t] = IF st.done THEN "returned" ELSE "run"]
    /\ UNCHANGED arg

\* Thread t makes one pass through the loop of obd_elm327_clean_response.
ThreadCleanStep(t) ==
    /\ pc[t] = "run" /\ arg[t].fn = "clean"
    /\ LET base == BufferBase(arg, t)
           l    == ret.loc[t]
           st   == clean_step(arg[t].text, arg[t].size,
                       [p |-> l.p, out |-> Buf(ret.mem, base, l.out_pos),
                        found_data |-> l.found_data, done |-> FALSE, r |-> OBD_OK])
       IN  /\ ret' = [mem |-> Store(ret.mem, base, st.out),
                      loc |-> [ret.loc EXCEPT ![t] = [p |-> st.p, out_pos |-> Len(st.out),
                                                      found_data |-> st.found_data,
                                                      r |-> st.r]]]
           /\ pc' = [pc EXCEPT ![t] = IF st.done THEN "returned" ELSE "run"]
    /\ UNCHANGED arg

\* Thread t makes one pass through the loop of obd_strip_whitespace.
ThreadStripStep(t) ==
    /\ pc[t] = "run" /\ arg[t].fn = "strip"
    /\ LET base == BufferBase(arg, t)
           l    == ret.loc[t]
           st   == strip_step([buf |-> Buf(ret.mem, base, arg[t].size), read |-> l.read,
                               write |-> l.write, done |-> FALSE])
       IN  /\ ret' = [mem |-> Store(ret.mem, base, st.buf),
                      loc |-> [ret.loc EXCEPT ![t] = [read |-> st.read, write |-> st.write,
                                                      r |-> OBD_OK]]]
           /\ pc' = [pc EXCEPT ![t] = IF st.done THEN "returned" ELSE "run"]
    /\ UNCHANGED arg

\* Thread t calls obd_sensor_get_name, which reads the sensor table.
ThreadGetName(t) ==
    /\ pc[t] = "run" /\ arg[t].fn = "name"
    /\ LET base == BufferBase(arg, t)
           res  == obd_sensor_get_name(arg[t].pid, Buf(ret.mem, base, arg[t].size),
                                       arg[t].size)
       IN  /\ ret' = [mem |-> Store(ret.mem, base, res.name),
                      loc |-> [ret.loc EXCEPT ![t] = [r |-> res.r]]]
           /\ pc' = [pc EXCEPT ![t] = "returned"]
    /\ UNCHANGED arg

NextThreads ==
    \E t \in Threads :
        ThreadHexStep(t) \/ ThreadCleanStep(t) \/ ThreadStripStep(t) \/ ThreadGetName(t)

SpecThreads == InitThreads /\ [][NextThreads]_vars

\* The outcome of the call made alone (obd_strip_whitespace returns nothing).
AloneOutcome(call) ==
    CASE call.fn = "hex"   -> obd_hex_to_bytes(call.text, call.size).r
      [] call.fn = "clean" -> obd_elm327_clean_response(call.text, call.size).r
      [] call.fn = "strip" -> OBD_OK
      [] call.fn = "name"  -> obd_sensor_get_name(call.pid, EntryBuffer(call), call.size).r

\* The cells the call made alone writes, from the first cell of its buffer.
AloneCells(call) ==
    CASE call.fn = "hex"   -> obd_hex_to_bytes(call.text, call.size).out
      [] call.fn = "clean" -> obd_elm327_clean_response(call.text, call.size).out
      [] call.fn = "strip" -> Append(obd_strip_whitespace(call.text), 0)
      [] call.fn = "name"  -> obd_sensor_get_name(call.pid, EntryBuffer(call), call.size).name

\* The buffer after the call made alone.
AloneBuffer(call) ==
    [i \in 1..call.size |->
        IF i <= Len(AloneCells(call)) THEN AloneCells(call)[i] ELSE EntryBuffer(call)[i]]

\* C27: however the passes of the calls are interleaved, a call that has
\* returned has the outcome and has left in its buffer the contents of the
\* same call made alone, whatever the other threads do afterwards; and no
\* cell outside the buffers is written.
ThreadsIndependent ==
    /\ \A t \in Threads :
          pc[t] = "returned" =>
             /\ ret.loc[t].r = AloneOutcome(arg[t])
             /\ Buf(ret.mem, BufferBase(arg, t), arg[t].size) = AloneBuffer(arg[t])
    /\ Buf(ret.mem, BufferBase(arg, MaxThreads + 1), MemGuard)
          = [i \in 1..MemGuard |-> Untouched]

\* A cleaner and, in the buffer next to it, a stripper have both returned.
ThreadsIndependentWitness ==
    /\ pc[1] = "returned" /\ pc[2] = "returned"
    /\ arg[1].fn = "clean" /\ arg[1].text = TEST_RAW_RPM_RESPONSE /\ arg[1].size = 12
    /\ arg[2].fn = "strip" /\ arg[2].text = Str(<<"4","1"," ","0","C","\r","\n">>)
    /\ ret.loc[1].r = OBD_OK
    /\ CStr(Buf(ret.mem, 0, 12)) = TEST_CLEAN_RPM
    /\ CStr(Buf(ret.mem, 12, 8)) = Str(<<"4","1","0","C">>)


(***************************************************************************)
(* The cleaner on transcripts of whole lines: what an adapter sends back   *)
(* line by line (tests/test_elm327.c, tests/test_data.h).                  *)
(***************************************************************************)

\* Most lines of a transcript.
MaxShapeLines == 3

\* Lines that are no response data: echoed AT commands, an echoed request,
\* a single character, the OK and banner lines, NO DATA, error tokens.
JunkLines ==
    { Str(<<"A","T","Z">>), Str(<<"A","T","E","0">>), Str(<<"0","1","0","C">>),
      Str(<<"4">>), TokOK, Str(<<"E","L","M","3","2","7"," ","v","1",".","5">>),
      TokNoData, TokError, Str(<<"?">>), Str(<<"3","F">>) }

\* Response lines, one with blanks before and after it.
DataLines ==
    { Str(<<"4","1"," ","0","C"," ","1","A"," ","F","8">>),
      Str(<<" ","7","F"," ","0","1"," ">>) }

InitShape ==
    /\ pc = "clean"
    /\ ret = [r |-> OBD_OK, out |-> <<>>]
    /\ \E ls \in SeqsUpTo(JunkLines \cup DataLines \cup {<<>>}, MaxShapeLines),
          sep \in {Str(<<"\r">>), Str(<<"\r","\n">>)},
          tail \in {<<>>, Str(<<">">>)},
          n \in {7, 12, 64} :
          arg = [raw |-> JoinWith(ls, sep) \o tail, out_size |-> n]

SpecShape == InitShape /\ [][NextClean]_vars

\* C28: the payload of an OK result is not empty and does not end in a
\* space or a tab; each of its segments between CRs begins with two hex
\* digits that make a byte of 0x40 or more; so no segment is one of the
\* lines that are no response data.
PayloadShape ==
    (pc = "done" /\ ret.r = OBD_OK) =>
        LET payload == CStr(ret.out) IN
        /\ payload # <<>>
        /\ payload[Len(payload)] \notin {Ch(" "), Ch("\t")}
        /\ \A k \in 1..Len(SplitLines(payload)) :
              LET seg == SplitLines(payload)[k] IN
              /\ Len(seg) >= 2
              /\ IsHexDigit(seg[1]) /\ IsHexDigit(seg[2])
              /\ HexValue(seg[1]) * 16 + HexValue(seg[2]) >= 64
              /\ seg \notin JunkLines

\* An OK result from a transcript of an echoed ATZ, a response line and a
\* response line between blanks, ended by the prompt.
PayloadShapeWitness ==
    /\ pc = "done"
    /\ ret.r = OBD_OK
    /\ arg.raw = Str(<<"A","T","Z","\r">>)
                    \o Str(<<"4","1"," ","0","C"," ","1","A"," ","F","8","\r">>)
                    \o Str(<<" ","7","F"," ","0","1"," ","\r",">">>)
    /\ CStr(ret.out) = Str(<<"4","1"," ","0","C"," ","1","A"," ","F","8","\r","7","F"," ","0","1">>)


(***************************************************************************)
(* A caller that cleans the transcript of a VIN request and hands the      *)
(* payload to the VIN reassembler (obd.h, the workflow of its header).     *)
(***************************************************************************)

\* Most frame lines of a transcript built from the frame pool.
MaxComposeFrames == 3

\* Lines that begin 49 02: a frame of the canonical transcript, a frame of
\* 16 bytes, the whole VIN in one frame, a frame between blanks, a frame
\* without blanks, a line that is no hex after its header.
ComposeFrames ==
    { VinFrames[1], VinFrame16, VinFrame20,
      Str(<<" ">>) \o VinFrames[5] \o Str(<<" ","\t">>),
      Str(<<"4","9","0","2","0","3","3","7","4","6">>),
      Str(<<"4","9"," ","0","2"," ","0","1"," ","5","7"," ","Z","Z">>) }

\* The transcript: the echoed request, the frame lines, each line ended by
\* sep, and the prompt, on a line of its own or right after the last frame.
ComposeTranscript(frames, sep, own_line) ==
    Str(<<"0","9","0","2">>) \o sep
       \o (IF own_line THEN JoinWith(frames, sep)
           ELSE JoinWith(SubSeq(frames, 1, Len(frames) - 1), sep) \o frames[Len(frames)])
       \o Str(<<">">>)

InitCompose ==
    /\ pc = "transcript"
    /\ ret = [clean |-> [r |-> OBD_OK, out |-> <<>>],
              vin   |-> [r |-> OBD_OK, written |-> FALSE, vin |-> <<>>]]
    /\ \E frames \in (SeqsUpTo(ComposeFrames, MaxComposeFrames) \ {<<>>}) \cup {VinFrames},
          sep \in {Str(<<"\r">>), Str(<<"\n">>), Str(<<"\r","\n">>), Str(<<"\r","\r">>)},
          own_line \in BOOLEAN, exact \in BOOLEAN :
          arg = [frames   |-> frames,
                 raw      |-> ComposeTranscript(frames, sep, own_line),
                 out_size |-> IF exact THEN Len(JoinCR(frames)) + 1
                              ELSE OBD_MAX_RESPONSE_LEN]

\* The caller cleans the transcript.
ComposeClean ==
    /\ pc = "transcript"
    /\ ret' = [ret EXCEPT !.clean = obd_elm327_clean_response(arg.raw, arg.out_size)]
    /\ pc' = "cleaned"
    /\ UNCHANGED arg

\* The caller gives the payload to obd_vin_parse_response.
ComposeParse ==
    /\ pc = "cleaned"
    /\ ret' = [ret EXCEPT !.vin = obd_vin_parse_response(CStr(ret.clean.out), FALSE,
                                                         OBD_VIN_LENGTH + 1)]
    /\ pc' = "parsed"
    /\ UNCHANGED arg

NextCompose == ComposeClean \/ ComposeParse

SpecCompose == InitCompose /\ [][NextCompose]_vars

\* C29: the transcript is cleaned with OK, and the VIN reassembler gives
\* for the payload the outcome and the VIN it gives for the frame lines
\* joined by CR.
ComposeVin ==
    /\ pc \in {"cleaned", "parsed"} => ret.clean.r = OBD_OK
    /\ pc = "parsed" =>
          LET alone == obd_vin_parse_response(JoinCR(arg.frames), FALSE, OBD_VIN_LENGTH + 1)
          IN  ret.vin.r = alone.r /\ ret.vin.vin = alone.vin

\* The canonical five frames, the prompt right after the last of them, were
\* cleaned into a buffer they fill and gave the VIN.
ComposeVinWitness ==
    /\ pc = "parsed"
    /\ arg.frames = VinFrames
    /\ arg.out_size = Len(JoinCR(VinFrames)) + 1
    /\ arg.raw[Len(arg.raw) - 1] = Ch("0")
    /\ ret.vin.r = OBD_OK
    /\ ret.vin.vin = TEST_EXPECTED_VIN


(***************************************************************************)
(* A caller that decodes a response, and then the same response under      *)
(* another mode byte.                                                      *)
(***************************************************************************)

\* Mode bytes other than 0x41: freeze frame data, a request, the negative
\* response code.
OtherModes == {66, 1, 127}

InitSensorMode ==
    /\ pc = "call"
    /\ ret = [first |-> [r |-> OBD_OK, out |-> Unset], other |-> [r |-> OBD_OK, out |-> Unset]]
    /\ \E pid \in 0..255, mode \in OtherModes, data \in SensorData,
          data_len \in 0..MaxDataLen :
          arg = [response   |-> [mode |-> 65, pid |-> pid, data |-> data,
                                 data_len |-> data_len],
                 other_mode |-> mode]

\* The response is decoded.
SensorDecodeFirst ==
    /\ pc = "call"
    /\ ret' = [ret EXCEPT !.first = obd_sensor_decode(arg.response)]
    /\ pc' = "first"
    /\ UNCHANGED arg

\* The response is decoded again, its mode byte replaced.
SensorDecodeOther ==
    /\ pc = "first"
    /\ ret' = [ret EXCEPT
                 !.other = obd_sensor_decode([arg.response EXCEPT !.mode = arg.other_mode])]
    /\ pc' = "both"
    /\ UNCHANGED arg

NextSensorMode == SensorDecodeFirst \/ SensorDecodeOther

SpecSensorMode == InitSensorMode /\ [][NextSensorMode]_vars

\* C30: two responses that differ in their mode byte only are decoded to
\* the same outcome and the same value, name and unit.
SensorModeIndependent == pc = "both" => ret.first = ret.other

\* An engine speed was decoded from a response carrying the negative
\* response code as its mode.
SensorModeIndependentWitness ==
    /\ pc = "both"
    /\ arg.response.pid = 12 /\ arg.other_mode = 127 /\ arg.response.data_len = 2
    /\ ret.other.r = OBD_OK
    /\ ret.other.out.set
    /\ CStr(ret.other.out.unit) = Str(<<"r","p","m">>)

====
